---- MODULE Spec2Model ----
(***************************************************************************)
(* A model of ki (src/ki/__init__.py): the clone, push and pull commands   *)
(* acting on one collection file and one working-copy path.                *)
(*                                                                         *)
(* Spec has each command as one step.  SpecPush takes one push statement   *)
(* by statement, from a working copy with one commit since the last push,  *)
(* next to a second command on the same collection.  SpecFn applies single *)
(* functions (the walk of M_kirepo, the note parser, the field checks of   *)
(* update_kinote and add_note_from_flatnote, one turn of diff_repos with   *)
(* its ignore predicate, get_note_path) to inputs drawn in InitFn.         *)
(*                                                                         *)
(* Conventions of the model                                                *)
(*  - A Result is a record [k, e]: k = "Ok", k = "Err" (a returned typed   *)
(*    error e) or k = "Raised" (a Python exception e that leaves the       *)
(*    command).  The combinator `safe` (ki/safe.py) passes an Ok value on  *)
(*    to the function it decorates and returns the first Err argument      *)
(*    without calling it; it catches nothing.  An Ok wrapper is the value  *)
(*    it wraps.                                                            *)
(*  - beartype's run-time annotation checks are not modelled.              *)
(*  - A name, key or attribute that the source cannot resolve raises the   *)
(*    exception Python raises for it.                                      *)
(*  - MD5 is collision free: the digest of a file is a record holding its  *)
(*    content.                                                             *)
(***************************************************************************)
EXTENDS Integers, Sequences, FiniteSets, TLC

\* Number of commands and user edits in one behaviour.
MaxOps == 4

\* ------------------------------------------------------------------------
\* Names of the sidecar and repository entries.
KI == ".ki"
CONFIG_FILE == "config"
HASHES_FILE == "hashes"
BACKUPS_DIR == "backups"
LAST_PUSH_FILE == "last_push"
NO_SM_DIR == "no_submodules_tree"
MODELS_FILE == "models.json"
GIT == ".git"
GITIGNORE_FILE == ".gitignore"

\* An entry of the target directory that ki did not create.
USER_FILE == "userfile"

\* ------------------------------------------------------------------------
\* Notes.  The collection maps the nids it holds to their two field bodies
\* (notetype Basic, fields Front and Back, sort field Front, deck "a").
Nids == {1, 2}
Fronts == {"r", "R", "r2"}
Backs == {"s", "s2"}

\* The collection of scenario S1: one note with Front "r" and Back "s".
Db0 == (1 :> [front |-> "r", back |-> "s"])

\* The collection Db0 after its Back was changed to "s2".
DbX == (1 :> [front |-> "r", back |-> "s2"])

\* hashlib.md5 over the bytes of the collection file.
md5(bytes) == [digest |-> bytes]

\* The basename of the collection file: an ordinary name, or a name that
\* has the hex digest of some collection content in it (the files of
\* .ki/backups/ are named this way).
PlainName == [embeds |-> FALSE, digest |-> md5(Db0)]
DigestName == [embeds |-> TRUE, digest |-> md5(DbX)]

\* ------------------------------------------------------------------------
\* Results.
Ok == [k |-> "Ok", e |-> ""]
Err(e) == [k |-> "Err", e |-> e]
Raised(e) == [k |-> "Raised", e |-> e]

Last(s) == s[Len(s)]

\* ------------------------------------------------------------------------
\* State.
\*   col      content of the collection file
\*   colName  basename of the collection file
\*   wc       the directory at the working-copy path:
\*              kind      "NoPath", "File", "Strange" or "Dir"
\*              entries   names present in it (sidecar leaves by their name)
\*              tree      note files of the working tree, by (slug, index)
\*              commits   trees of the commits of the main repository;
\*                        commit i is commits[i], HEAD is the last one
\*              hashes    lines of .ki/hashes, each [md5, tag]
\*              last_push commit id in .ki/last_push, 0 for an empty file
\*              backups   the files .ki/backups/<name>.anki2, each
\*                        [name, bytes]
\*              mirror    .ki/no_submodules_tree: is it a repository, its
\*                        tree, and the refs named by its commits
\*   con      the sqlite3 connection of the last command when it ended:
\*              "none", "locked" (exclusive transaction open) or "closed"
\*   log      the commands and user edits so far
\*   run      a push taken step by step (see "Push, step by step")
\*   rival    a second ki command on the same collection: "idle", "refused"
\*            (its lock attempt failed), "locked", "read" or "exited"
\*   fn       one function of the source being applied to drawn inputs
\*            (see "Functions on their own")
VARIABLES col, colName, wc, con, log, run, rival, fn

vars == <<col, colName, wc, con, log, run, rival, fn>>

EmptyTree == [p \in {} |-> [nid |-> 0, front |-> "", back |-> ""]]

NoMirror == [repo |-> FALSE, tree |-> EmptyTree, refs |-> <<>>]

NoWc ==
    [kind |-> "NoPath", entries |-> {}, tree |-> EmptyTree, commits |-> <<>>,
     hashes |-> <<>>, last_push |-> 0, backups |-> {}, mirror |-> NoMirror]

\* No push is being taken step by step.
NoRun ==
    [pc |-> "idle", cwd |-> "root", edit |-> "", wc0 |-> NoWc, col0 |-> Db0,
     deltas |-> <<>>, todo |-> <<>>, a |-> Db0, num_new_nids |-> 0,
     applied |-> <<>>, stash |-> {}, backed |-> FALSE, over |-> FALSE,
     res |-> Ok, echo |-> ""]

\* No function is being applied on its own.
NoFn == [f |-> "none"]

\* ------------------------------------------------------------------------
\* Path-state layer.

\* os.scandir(directory) yields nothing.
is_empty(w) == w.entries = {} /\ DOMAIN w.tree = {}

\* The tag fftest gives the working-copy path.
fftest(w) ==
    CASE w.kind = "File" -> "ExtantFile"
      [] w.kind = "Dir" -> IF is_empty(w) THEN "EmptyDir" ELSE "ExtantDir"
      [] w.kind = "Strange" -> "ExtantStrangePath"
      [] OTHER -> "NoPath"

\* path.mkdir(parents=True), then M_emptydir.
fmkdir(w) == [res |-> Ok, wc |-> [w EXCEPT !.kind = "Dir"]]

\* A plausible slip of fmkdempty: any directory is taken as the target.
fmkdempty_anydir(w) ==
    CASE fftest(w) = "NoPath" -> fmkdir(w)
      [] fftest(w) \in {"EmptyDir", "ExtantDir"} -> [res |-> Ok, wc |-> w]
      [] OTHER -> [res |-> Err("TargetExistsError"), wc |-> w]

\* The target of a clone: created when absent, accepted when an empty
\* directory, TargetExistsError otherwise.
fmkdempty(w) ==
    CASE fftest(w) = "NoPath" -> fmkdir(w)
      [] fftest(w) = "EmptyDir" -> [res |-> Ok, wc |-> w]
      [] OTHER -> [res |-> Err("TargetExistsError"), wc |-> w]

get_target(w) == fmkdempty(w)

\* shutil.rmtree(target): nothing is left at the path.
rmtree(w) == NoWc

\* The first Err among the arguments of a function decorated with `safe`.
FirstErr(args) ==
    args[CHOOSE i \in 1..Len(args) :
            /\ args[i].k = "Err"
            /\ \A j \in 1..(i - 1) : args[j].k # "Err"]

\* ------------------------------------------------------------------------
\* Write-out engine.

\* slugify(text[:30]) on the Front values of the model: lower case.
slugify(text) == IF text = "R" THEN "r" ELSE text

\* A plausible slip of get_note_path: the name is not tested.
never_taken(note_path, paths) == FALSE

\* The test of the while loop of get_note_path: fftest gives something other
\* than NoPath for the name.
taken(note_path, paths) == note_path \in paths

RECURSIVE free_index(_, _, _)
\* The while loop of get_note_path: the first index whose name is free.
free_index(name, i, paths) ==
    IF ~taken(<<name, i>>, paths) THEN i ELSE free_index(name, i + 1, paths)

\* <slug>.md is (slug, 0) and <slug>_i.md is (slug, i).
get_note_path(sort_field_text, paths) ==
    <<slugify(sort_field_text), free_index(slugify(sort_field_text), 0, paths)>>

RECURSIVE find_notes(_)
\* a.col.find_notes(query=""): the nids in ascending order.
find_notes(db) ==
    IF DOMAIN db = {} THEN <<>>
    ELSE LET n == CHOOSE x \in DOMAIN db : \A y \in DOMAIN db : x <= y
         IN <<n>> \o find_notes([m \in DOMAIN db \ {n} |-> db[m]])

RECURSIVE write_deck(_, _, _)
\* One note file per note, at the path get_note_path gives when it is
\* written.
write_deck(nids, db, tree) ==
    IF nids = <<>> THEN tree
    ELSE LET nid == Head(nids)
             notepath == get_note_path(db[nid].front, DOMAIN tree)
             payload == [nid |-> nid, front |-> db[nid].front, back |-> db[nid].back]
         IN write_deck(Tail(nids), db, (notepath :> payload) @@ tree)

\* The note files write_notes leaves in an empty target.
write_notes(db) == write_deck(find_notes(db), db, EmptyTree)

\* write_repository: the config is written, the collection is opened with
\* Anki, fields with HTML are tidied, then the notes and the notetype
\* manifests are written.  Opening a collection on which another connection
\* holds the exclusive lock fails; a tidy that cannot be started makes
\* tidy_html_recursively return an Err, on which write_notes returns it.
write_repository(w, db, tidy, locked) ==
    IF locked THEN [res |-> Raised("DBError"), wc |-> w]
    ELSE IF tidy = "fails" THEN [res |-> Err("TidyError"), wc |-> w]
    ELSE [res |-> Ok,
          wc |-> [w EXCEPT !.entries = @ \cup {MODELS_FILE},
                           !.tree = write_notes(db)]]

\* ------------------------------------------------------------------------
\* Clone.

\* fmkleaves: the Leaves it returns hold the files under their keys.
fmkleaves(w) ==
    [files |-> {CONFIG_FILE, LAST_PUSH_FILE},
     dirs |-> {BACKUPS_DIR, NO_SM_DIR},
     wc |-> [w EXCEPT !.entries = @ \cup {CONFIG_FILE, LAST_PUSH_FILE,
                                          BACKUPS_DIR, NO_SM_DIR}]]

\* init_repos: returns the Err of `wrote`; else the main repository is
\* initialised and everything committed, and the mirror directory is looked
\* up in leaves.files.
init_repos(w, leaves, wrote) ==
    IF wrote.k = "Err" THEN [res |-> wrote, wc |-> w]
    ELSE LET committed == [w EXCEPT !.entries = @ \cup {GIT},
                                    !.commits = <<w.tree>>]
         IN IF NO_SM_DIR \in leaves.files
            THEN [res |-> Ok,
                  wc |-> [committed EXCEPT !.mirror.repo = TRUE]]
            ELSE [res |-> Raised("KeyError"), wc |-> committed]

\* A plausible slip of append_md5sum: the file is opened with "w+".
append_md5sum_truncating(w, tag, md5sum) ==
    [w EXCEPT !.entries = @ \cup {HASHES_FILE},
              !.hashes = <<[md5 |-> md5sum, tag |-> tag]>>]

\* append_md5sum: one more line "<md5sum>  <tag>" in .ki/hashes.
append_md5sum(w, tag, md5sum) ==
    [w EXCEPT !.entries = @ \cup {HASHES_FILE},
              !.hashes = Append(@, [md5 |-> md5sum, tag |-> tag])]

\* _clone into the directory w, which is empty.
_clone(w, db, name, tidy, locked) ==
    LET ki_dir == [w EXCEPT !.entries = @ \cup {KI}]
        leaves == fmkleaves(ki_dir)
        md5sum == md5(db)
        ignored == [leaves.wc EXCEPT !.entries = @ \cup {GITIGNORE_FILE}]
        wrote == write_repository(ignored, db, tidy, locked)
        initialized == init_repos(wrote.wc, leaves, wrote.res)
    IN IF wrote.res.k = "Raised" THEN wrote
       ELSE IF initialized.res.k # "Ok" THEN initialized
       ELSE [res |-> Ok, wc |-> append_md5sum(initialized.wc, name, md5sum)]

\* ------------------------------------------------------------------------
\* Ki-repo model.

\* M_kirepo from the working-copy path: NotKiRepoError when no sidecar
\* directory is found, else the first component that is missing, in the
\* order of the arguments of its constructor.
M_kirepo(w) ==
    CASE w.kind # "Dir" \/ KI \notin w.entries -> Err("NotKiRepoError")
      [] GIT \notin w.entries -> Err("InvalidGitRepositoryError")
      [] CONFIG_FILE \notin w.entries -> Err("FileNotFoundError")
      [] BACKUPS_DIR \notin w.entries -> Err("FileNotFoundError")
      [] HASHES_FILE \notin w.entries -> Err("FileNotFoundError")
      [] MODELS_FILE \notin w.entries -> Err("FileNotFoundError")
      [] LAST_PUSH_FILE \notin w.entries -> Err("FileNotFoundError")
      [] NO_SM_DIR \notin w.entries -> Err("FileNotFoundError")
      [] ~w.mirror.repo -> Err("InvalidGitRepositoryError")
      [] OTHER -> Ok

\* M_head_kirepo_ref: an Err argument is returned; otherwise the body reads
\* ki.repo.repo.head, where ki is the click group: an AttributeError, which
\* its handler for ValueError does not catch.
M_head_kirepo_ref(kirepo) ==
    IF kirepo.k = "Err" THEN kirepo ELSE Raised("AttributeError")

\* cleanup_after_clone: the Err of targetdir is returned with the target
\* untouched; else the target is removed, the first Err of kirepo, head and
\* processed is returned, and with none of them the commit id is written to
\* a last_push file that is no longer there.
cleanup_after_clone(targetdir, kirepo, head, processed, w) ==
    IF targetdir.k = "Err" THEN [res |-> targetdir, wc |-> w]
    ELSE LET removed == IF w.kind = "Dir" THEN rmtree(w) ELSE w
         IN CASE kirepo.k = "Err" -> [res |-> kirepo, wc |-> removed]
              [] head.k = "Err" -> [res |-> head, wc |-> removed]
              [] processed.k = "Err" -> [res |-> processed, wc |-> removed]
              [] OTHER -> [res |-> Raised("FileNotFoundError"), wc |-> removed]

\* clone: the target, _clone, then the loading of the new working copy and
\* the building of the mirror, then cleanup_after_clone.  An exception
\* leaves the command where it is raised.  get_ephemeral_kirepo,
\* convert_stage_kirepo and postprocess_clone_repos are decorated with
\* `safe` and get the result of M_head_kirepo_ref, which is never an Ok:
\* each returns its first Err argument.
clone(w, db, name, tidy) ==
    LET target == get_target(w)
        md5sum == IF target.res.k = "Err" THEN target
                  ELSE _clone(target.wc, db, name, tidy, FALSE)
        targetdir == target.res
        kirepo == IF targetdir.k = "Err" THEN targetdir ELSE M_kirepo(md5sum.wc)
        head == M_head_kirepo_ref(kirepo)
        stage_kirepo == FirstErr(<<head, md5sum.res>>)
        processed == FirstErr(<<stage_kirepo, head>>)
    IN IF md5sum.res.k = "Raised" THEN md5sum
       ELSE IF head.k = "Raised" THEN [res |-> head, wc |-> md5sum.wc]
       ELSE cleanup_after_clone(targetdir, kirepo, head, processed, md5sum.wc)

\* The first error that occurred in a clone, "" when none did.
first_error(w, db, name, tidy) ==
    LET target == get_target(w)
        cloned == _clone(target.wc, db, name, tidy, FALSE)
    IN IF target.res.k # "Ok" THEN target.res.e
       ELSE IF cloned.res.k # "Ok" THEN cloned.res.e
       ELSE clone(w, db, name, tidy).res.e

\* ------------------------------------------------------------------------
\* The lock on the collection and the hashes log.

\* lock: sqlite3.connect and BEGIN EXCLUSIVE.
lock(c) == "locked"

\* A plausible slip of unlock: the connection is left as it is.
unlock_forgotten(c) == c

\* unlock: commit and close.
unlock(c) == "closed"

\* A plausible slip of lock: the transaction is not exclusive.
begin_deferred(c, busy) == lock(c)

\* BEGIN EXCLUSIVE in lock when another connection may have its exclusive
\* transaction open on the collection (busy): sqlite3 raises
\* OperationalError and no connection is returned.
begin_exclusive(c, busy) == IF busy THEN "none" ELSE lock(c)

\* `md5sum in hashes[-1]`: the digest is a substring of the line
\* "<md5>  <tag>", so it is its first field or is found in the tag.
md5sum_in(md5sum, line) ==
    \/ line.md5 = md5sum
    \/ line.tag.embeds /\ line.tag.digest = md5sum

\* ------------------------------------------------------------------------
\* Push.

\* A plausible slip of _push: the hashes log is not looked at.
_push_unchecked(w, db, c) ==
    [res |-> M_head_kirepo_ref(Ok), con |-> c, echo |-> ""]

\* _push: UpdatesRejectedError unless the last line of the hashes log has
\* the digest of the collection in it; then M_head_kirepo_ref, whose
\* exception ends the command before anything is staged.
_push(w, db, c) ==
    IF w.hashes = <<>> THEN [res |-> Raised("IndexError"), con |-> c, echo |-> ""]
    ELSE IF ~md5sum_in(md5(db), Last(w.hashes))
    THEN [res |-> Err("UpdatesRejectedError"), con |-> c, echo |-> ""]
    ELSE [res |-> M_head_kirepo_ref(Ok), con |-> c, echo |-> ""]

\* push: lock is given the result of M_kirepo as it is; on an Err it reads
\* an attribute the Err does not have, before a connection is made.
push(w, db, c) ==
    IF M_kirepo(w).k = "Err"
    THEN [res |-> Raised("AttributeError"), con |-> c, echo |-> ""]
    ELSE _push(w, db, lock(c))

\* ------------------------------------------------------------------------
\* Pull.

\* _pull: "up to date" and unlock when the last line of the hashes log has
\* the digest of the collection in it.  Otherwise the collection is cloned
\* into a temporary directory while this command holds the exclusive lock
\* on it: write_repository raises, and nothing of the working copy changed.
_pull(w, db, name, c) ==
    IF w.hashes = <<>> THEN [res |-> Raised("IndexError"), con |-> c, echo |-> ""]
    ELSE IF md5sum_in(md5(db), Last(w.hashes))
    THEN [res |-> Ok, con |-> unlock(c), echo |-> "ki pull: up to date."]
    ELSE [res |-> _clone([NoWc EXCEPT !.kind = "Dir"], db, name, "ok", c = "locked").res,
          con |-> c, echo |-> ""]

\* pull: as push, lock is given the result of M_kirepo as it is.
pull(w, db, name, c) ==
    IF M_kirepo(w).k = "Err"
    THEN [res |-> Raised("AttributeError"), con |-> c, echo |-> ""]
    ELSE _pull(w, db, name, lock(c))

\* ------------------------------------------------------------------------
\* Initial states and actions.

\* Every sidecar and repository entry of a working copy.
KiEntries ==
    {KI, CONFIG_FILE, HASHES_FILE, BACKUPS_DIR, LAST_PUSH_FILE, NO_SM_DIR,
     MODELS_FILE, GIT, GITIGNORE_FILE}

\* A working copy in sync with the collection db: the note files of db in
\* one commit, one line in the hashes log, that commit in last_push, and
\* the mirror holding the same tree.
SyncedWc(db, name) ==
    [kind |-> "Dir", entries |-> KiEntries, tree |-> write_notes(db),
     commits |-> <<write_notes(db)>>,
     hashes |-> <<[md5 |-> md5(db), tag |-> name]>>,
     last_push |-> 1, backups |-> {},
     mirror |-> [repo |-> TRUE, tree |-> write_notes(db), refs |-> <<1>>]]

\* What can be at the working-copy path before the first command.
InitialPaths(name) ==
    {NoWc,
     [NoWc EXCEPT !.kind = "Dir"],
     [NoWc EXCEPT !.kind = "Dir", !.entries = {USER_FILE}],
     [NoWc EXCEPT !.kind = "File"],
     [NoWc EXCEPT !.kind = "Strange"],
     SyncedWc(Db0, name)}

Init ==
    /\ col = Db0
    /\ colName \in {PlainName, DigestName}
    /\ wc \in InitialPaths(colName)
    /\ con = "none"
    /\ log = <<>>
    /\ run = NoRun
    /\ rival = "idle"
    /\ fn = NoFn

\* One entry of the log.
Entry(op, r, first, refused, kind, nid, path) ==
    [op |-> op, status |-> r.res.k, err |-> r.res.e, echo |-> r.echo,
     first |-> first, refused |-> refused, kind |-> kind, nid |-> nid,
     path |-> path]

NoPathKey == <<"", 0>>

\* The user edits the collection with Anki: a field of a note gets another
\* value, a note is added, or a note is deleted.
DbEdit ==
    /\ Len(log) < MaxOps
    /\ \/ \E nid \in DOMAIN col : \E v \in Fronts \ {col[nid].front} :
            /\ col' = [col EXCEPT ![nid].front = v]
            /\ log' = Append(log, Entry("dbedit", [res |-> Ok, echo |-> ""], "",
                                        FALSE, "field", nid, NoPathKey))
       \/ \E nid \in DOMAIN col : \E v \in Backs \ {col[nid].back} :
            /\ col' = [col EXCEPT ![nid].back = v]
            /\ log' = Append(log, Entry("dbedit", [res |-> Ok, echo |-> ""], "",
                                        FALSE, "field", nid, NoPathKey))
       \/ \E nid \in Nids \ DOMAIN col :
            /\ col' = (nid :> [front |-> "r", back |-> "s"]) @@ col
            /\ log' = Append(log, Entry("dbedit", [res |-> Ok, echo |-> ""], "",
                                        FALSE, "add", nid, NoPathKey))
       \/ \E nid \in DOMAIN col :
            /\ col' = [m \in DOMAIN col \ {nid} |-> col[m]]
            /\ log' = Append(log, Entry("dbedit", [res |-> Ok, echo |-> ""], "",
                                        FALSE, "delete", nid, NoPathKey))
    /\ UNCHANGED <<colName, wc, con, run, rival, fn>>

\* The tree becomes t and is committed in the main repository.
Committed(t) == [wc EXCEPT !.tree = t, !.commits = Append(@, t)]

\* The user edits the working copy and commits: a field body of a note file
\* is changed, a note file is deleted, a note file with the placeholder
\* nid 0 is added, or a note file of a working tree that is as the baseline
\* is renamed and given the nid 0.
CommitEdit ==
    /\ Len(log) < MaxOps
    /\ wc.kind = "Dir"
    /\ GIT \in wc.entries
    /\ \/ \E p \in DOMAIN wc.tree : \E v \in Fronts \ {wc.tree[p].front} :
            /\ wc' = Committed([wc.tree EXCEPT ![p].front = v])
            /\ log' = Append(log, Entry("commit", [res |-> Ok, echo |-> ""], "",
                                        FALSE, "field", wc.tree[p].nid, p))
       \/ \E p \in DOMAIN wc.tree : \E v \in Backs \ {wc.tree[p].back} :
            /\ wc' = Committed([wc.tree EXCEPT ![p].back = v])
            /\ log' = Append(log, Entry("commit", [res |-> Ok, echo |-> ""], "",
                                        FALSE, "field", wc.tree[p].nid, p))
       \/ \E p \in DOMAIN wc.tree :
            /\ wc' = Committed([q \in DOMAIN wc.tree \ {p} |-> wc.tree[q]])
            /\ log' = Append(log, Entry("commit", [res |-> Ok, echo |-> ""], "",
                                        FALSE, "delete", wc.tree[p].nid, p))
       \/ /\ <<"new", 0>> \notin DOMAIN wc.tree
          /\ wc' = Committed((<<"new", 0>> :> [nid |-> 0, front |-> "r2", back |-> "s"])
                             @@ wc.tree)
          /\ log' = Append(log, Entry("commit", [res |-> Ok, echo |-> ""], "",
                                      FALSE, "add", 0, <<"new", 0>>))
       \/ \E p \in DOMAIN wc.tree :
            /\ wc.tree = wc.mirror.tree
            /\ Last(wc.commits) = wc.mirror.tree
            /\ wc' = Committed((<<"moved", 0>> :> [wc.tree[p] EXCEPT !.nid = 0])
                               @@ [q \in DOMAIN wc.tree \ {p} |-> wc.tree[q]])
            /\ log' = Append(log, Entry("commit", [res |-> Ok, echo |-> ""], "",
                                        FALSE, "rename_nid", wc.tree[p].nid,
                                        <<"moved", 0>>))
    /\ UNCHANGED <<col, colName, con, run, rival, fn>>

\* ki clone <collection> <working-copy path>.  tidy = "fails": fields with
\* HTML are to be tidied and the tidy executable cannot be started.
Clone ==
    /\ Len(log) < MaxOps
    /\ \E tidy \in {"ok", "fails"} :
         LET r == clone(wc, col, colName, tidy)
             refused == get_target(wc).res.k = "Err" \/ tidy = "fails"
         IN /\ wc' = r.wc
            /\ log' = Append(log, Entry("clone", [res |-> r.res, echo |-> ""],
                                        first_error(wc, col, colName, tidy),
                                        refused, "", 0, NoPathKey))
    /\ con' = "none"
    /\ UNCHANGED <<col, colName, run, rival, fn>>

\* ki push, run at the working-copy path.
Push ==
    /\ Len(log) < MaxOps
    /\ LET r == push(wc, col, "none")
           refused == \/ M_kirepo(wc).k = "Err"
                      \/ r.res = Err("UpdatesRejectedError")
       IN /\ con' = r.con
          /\ log' = Append(log, Entry("push", r, r.res.e, refused, "", 0, NoPathKey))
    /\ UNCHANGED <<col, colName, wc, run, rival, fn>>

\* ki pull, run at the working-copy path.
Pull ==
    /\ Len(log) < MaxOps
    /\ LET r == pull(wc, col, colName, "none")
           refused == M_kirepo(wc).k = "Err"
       IN /\ con' = r.con
          /\ log' = Append(log, Entry("pull", r, r.res.e, refused, "", 0, NoPathKey))
    /\ UNCHANGED <<col, colName, wc, run, rival, fn>>

Next == DbEdit \/ CommitEdit \/ Clone \/ Push \/ Pull

Spec == Init /\ [][Next]_vars

\* ------------------------------------------------------------------------
\* The diff engine.

\* The collection Db0 with a second note.
Db2 ==
    (1 :> [front |-> "r", back |-> "s"]) @@ (2 :> [front |-> "r2", back |-> "s"])

\* The members of GitChangeType, in the order of the enumeration.
GitChangeType == <<"A", "D", "R", "M", "T">>

RECURSIVE SeqOf(_)
\* The elements of a finite set, one after the other.
SeqOf(S) ==
    IF S = {} THEN <<>>
    ELSE LET x == CHOOSE y \in S : TRUE IN <<x>> \o SeqOf(S \ {x})

\* Two versions of a file that git's rename detection takes for one file:
\* the bodies of the fields are the same, whatever the nid line.
similar(x, y) == x.front = y.front /\ x.back = y.back

\* b_repo.commit(ref.sha).diff(b_repo.head.commit) between the tree A of the
\* baseline and the tree B of HEAD.  GitPython asks for rename detection:
\* a path that is gone and a path that is new whose files are similar make
\* one Renamed entry.  The other paths that are gone
\* are Deleted, those that are new Added, and the paths whose file changed
\* Modified.
diff_index(A, B) ==
    LET gone == DOMAIN A \ DOMAIN B
        new == DOMAIN B \ DOMAIN A
        pairs == {pq \in gone \X new : similar(A[pq[1]], B[pq[2]])}
        renamed == {[change_type |-> "R", a_path |-> pq[1], b_path |-> pq[2]] :
                       pq \in {x \in pairs :
                                  /\ x[2] = CHOOSE q \in new : <<x[1], q>> \in pairs
                                  /\ x[1] = CHOOSE p \in gone : <<p, x[2]>> \in pairs}}
    IN renamed
       \cup {[change_type |-> "D", a_path |-> p, b_path |-> p] :
                p \in gone \ {r.a_path : r \in renamed}}
       \cup {[change_type |-> "A", a_path |-> p, b_path |-> p] :
                p \in new \ {r.b_path : r \in renamed}}
       \cup {[change_type |-> "M", a_path |-> p, b_path |-> p] :
                p \in {q \in DOMAIN A \cap DOMAIN B : A[q] # B[q]}}

\* A Delta: its status, the side whose file delta.path names ("a": the
\* copy of the baseline, "b": the stage repository), its relpath, and the
\* note parse_markdown_note reads from delta.path.
Delta(status, side, relpath, note) ==
    [status |-> status, side |-> side, relpath |-> relpath, note |-> note]

\* The body of the loops of diff_repos for one entry: a Deleted entry whose
\* A-side file exists gives a Deleted delta; a Renamed entry whose B-side
\* file exists and whose two sides parse to different nids gives a Deleted
\* and an Added delta; nothing is appended for any other entry.
entry_deltas(diff, A, B) ==
    IF diff.change_type = "D"
    THEN IF diff.a_path \in DOMAIN A
         THEN <<Delta("D", "a", diff.a_path, A[diff.a_path])>>
         ELSE <<>>
    ELSE IF diff.b_path \notin DOMAIN B THEN <<>>
    ELSE IF diff.change_type = "R" /\ A[diff.a_path].nid # B[diff.b_path].nid
    THEN <<Delta("D", "a", diff.a_path, A[diff.a_path]),
           Delta("A", "b", diff.b_path, B[diff.b_path])>>
    ELSE <<>>

RECURSIVE deltas_of(_, _, _)
\* The deltas of a sequence of entries.
deltas_of(diffs, A, B) ==
    IF diffs = <<>> THEN <<>>
    ELSE entry_deltas(Head(diffs), A, B) \o deltas_of(Tail(diffs), A, B)

\* diff_index.iter_change_type(change_type.value)
iter_change_type(index, change_type) ==
    SeqOf({diff \in index : diff.change_type = change_type})

\* diff_repos: for each change type in the order of the enumeration, the
\* deltas of the entries of that type.  Every path of the model is a note
\* file, which ignore_fn lets through.
diff_repos(A, B) ==
    LET index == diff_index(A, B)
        of(i) == deltas_of(iter_change_type(index, GitChangeType[i]), A, B)
    IN of(1) \o of(2) \o of(3) \o of(4) \o of(5)

\* ------------------------------------------------------------------------
\* Applying deltas to the collection.

\* The ids Anki gives to new notes.
NewNids == {3, 4}

\* a.col.new_note and a.col.addNote: an id no note of the collection has.
new_nid(a) == CHOOSE n \in NewNids : n \notin DOMAIN a

\* note.fields_check(): 2 when the first field is that of a note of the
\* collection, 0 otherwise.
fields_check(a, flatnote) ==
    IF \E n \in DOMAIN a : a[n].front = flatnote.front THEN 2 ELSE 0

\* a.col.remove_notes([nid])
remove_notes(a, nid) == [n \in DOMAIN a \ {nid} |-> a[n]]

\* update_kinote: the fields of the note get the values of the file.
update_kinote(a, flatnote) ==
    [a EXCEPT ![flatnote.nid] = [front |-> flatnote.front, back |-> flatnote.back]]

\* add_note_from_flatnote: the note is added under a new id when its health
\* is 0; nid 0 stands for the None it returns otherwise.
add_note_from_flatnote(a, flatnote) ==
    IF fields_check(a, flatnote) = 0
    THEN [a |-> (new_nid(a) :> [front |-> flatnote.front, back |-> flatnote.back]) @@ a,
          nid |-> new_nid(a)]
    ELSE [a |-> a, nid |-> 0]

\* The body of the loop of process_deltas for one delta, on the collection
\* a that Anki has open and the working tree: a Deleted delta removes the
\* note of the parsed nid; another delta updates the note of its nid when
\* the collection has it, and otherwise adds a note, removes the file at
\* the delta's relpath and writes the note, with its new nid, to the path
\* get_note_path gives.
apply_delta(st, delta) ==
    IF delta.status = "D"
    THEN [st EXCEPT !.a = remove_notes(@, delta.note.nid)]
    ELSE IF delta.note.nid \in DOMAIN st.a
    THEN [st EXCEPT !.a = update_kinote(@, delta.note)]
    ELSE LET added == add_note_from_flatnote(st.a, delta.note)
             unlinked == [p \in DOMAIN st.tree \ {delta.relpath} |-> st.tree[p]]
             new_note_path == get_note_path(delta.note.front, DOMAIN unlinked)
             kinote == [nid |-> added.nid, front |-> delta.note.front,
                        back |-> delta.note.back]
         IN IF added.nid = 0 THEN st
            ELSE [a |-> added.a,
                  tree |-> (new_note_path :> kinote) @@ unlinked,
                  num_new_nids |-> st.num_new_nids + 1]

\* is_delete of process_deltas, and its negation.
is_delete(d) == d.status = "D"
not_delete(d) == ~is_delete(d)

\* A plausible slip of process_deltas: the deltas in the list `deletes` are
\* applied first, the others after them.
deletes_first(deltas) == SelectSeq(deltas, is_delete) \o SelectSeq(deltas, not_delete)

\* The order in which the loop of process_deltas takes the deltas.
loop_order(deltas) == deltas

\* A plausible slip of process_deltas: Anki opens the collection itself.
with_anki_col_file == "col_file"

\* The file process_deltas opens with Anki: the copy in the temporary
\* directory.
with_anki == "new_col_file"

\* backup: the directory is <cwd>/.ki/backups.  At the root of the working
\* copy it is the one of the sidecar: a file <md5>.anki2 that is there is
\* left alone, else the collection is copied to it.  In another directory
\* of the working copy there is no .ki (M_kirepo stops at the first
\* directory that has one) and backupsdir.mkdir() raises.
backup(w, cwd, db) ==
    IF cwd # "root" THEN [res |-> Raised("FileNotFoundError"), wc |-> w]
    ELSE IF \E b \in w.backups : b.name = md5(db) THEN [res |-> Ok, wc |-> w]
    ELSE [res |-> Ok,
          wc |-> [w EXCEPT !.backups = @ \cup {[name |-> md5(db), bytes |-> db]}]]

\* ------------------------------------------------------------------------
\* Push, step by step.
\*
\* The steps of push in the order of the source: M_kirepo and lock, the
\* check of the hashes log, diff_repos, then process_deltas statement by
\* statement.  Lines 1917-1934 (the head reference, the stage and local
\* copies) are passed over, as for a caller that has the head reference:
\* the trees diff_repos compares are the one of the mirror (the baseline)
\* and the one of HEAD.  run.pc says where the push is; run.wc0 and
\* run.col0 are the working copy and the collection when it started.

\* Number of clone and pull commands after the push.
MaxAfter == 1

\* The push, or the rival, has its exclusive transaction open.
Holds1 == run.pc \notin {"idle", "start", "done"}
Holds2 == rival \in {"locked", "read"}

\* A working copy of db with one commit since the last push, by the kind
\* of the edit it makes to the note files.
EditedTrees(t) ==
    {[edit |-> "none", tree |-> t]}
    \cup {[edit |-> "field", tree |-> [t EXCEPT ![p].front = v]] :
             p \in DOMAIN t, v \in {"r", "R"}}
    \cup {[edit |-> "field", tree |-> [t EXCEPT ![p].back = v]] :
             p \in DOMAIN t, v \in Backs}
    \cup {[edit |-> "delete", tree |-> [q \in DOMAIN t \ {p} |-> t[q]]] :
             p \in DOMAIN t}
    \cup {[edit |-> "add",
           tree |-> (<<"new", 0>> :> [nid |-> 0, front |-> "R", back |-> "s"]) @@ t]}
    \cup {[edit |-> "rename",
           tree |-> (<<"moved", 0>> :> t[p]) @@ [q \in DOMAIN t \ {p} |-> t[q]]] :
             p \in DOMAIN t}
    \cup {[edit |-> "rename_nid",
           tree |-> (<<"moved", 0>> :> [t[p] EXCEPT !.nid = IF n = @ THEN 0 ELSE n])
                    @@ [q \in DOMAIN t \ {p} |-> t[q]]] :
             p \in DOMAIN t, n \in {0, 1, 2}}
    \cup {[edit |-> "rename_both",
           tree |-> (<<"moved", 0>> :> [t[pq[1]] EXCEPT !.nid = 0])
                    @@ (<<"moved", 1>> :> [t[pq[2]] EXCEPT !.nid = 0])] :
             pq \in {x \in (DOMAIN t) \X (DOMAIN t) : x[1] # x[2]}}
    \cup {[edit |-> "delete_rename",
           tree |-> (<<"moved", 0>> :> [t[pq[2]] EXCEPT !.nid = 0])] :
             pq \in {x \in (DOMAIN t) \X (DOMAIN t) : x[1] # x[2]}}
    \cup {[edit |-> "move",
           tree |-> (<<"moved", 0>> :> [t[p] EXCEPT !.back = "s2"])
                    @@ [q \in DOMAIN t \ {p} |-> t[q]]] :
             p \in {q \in DOMAIN t : t[q].back # "s2"}}

\* The working copies a push is started in, each with the kind of its edit:
\* in sync with db but for one commit, with or without a file of the user
\* that is not tracked, with or without a file in .ki/backups that has the
\* name of the backup of db.
PushInputs(db, name) ==
    {[edit |-> e.edit,
      wc |-> [SyncedWc(db, name) EXCEPT
                 !.tree = e.tree,
                 !.commits = IF e.edit = "none" THEN @ ELSE Append(@, e.tree),
                 !.entries = @ \cup u,
                 !.backups = b]] :
        e \in {x \in EditedTrees(write_notes(db)) :
                  x.edit = "none" \/ x.tree # write_notes(db)},
        u \in {{}, {USER_FILE}},
        b \in {{}, {[name |-> md5(db), bytes |-> DbX]}}}

InitPush ==
    /\ colName \in {PlainName, DigestName}
    /\ con = "none"
    /\ log = <<>>
    /\ rival = "idle"
    /\ fn = NoFn
    /\ \E db \in {Db0, Db2} :
         \/ \E i \in PushInputs(db, colName), c \in {db, DbX}, d \in {"root", "deck"} :
              /\ col = c
              /\ wc = i.wc
              /\ run = [NoRun EXCEPT !.pc = "start", !.cwd = d, !.edit = i.edit,
                                     !.wc0 = i.wc, !.col0 = c, !.a = c]
         \/ \E w \in {NoWc, [NoWc EXCEPT !.kind = "Dir"]} :
              /\ col = db
              /\ wc = w
              /\ run = [NoRun EXCEPT !.pc = "start", !.wc0 = w, !.col0 = db, !.a = db]

\* The push ends with the result r.
Ended(r, echo) == [run EXCEPT !.pc = "done", !.res = r, !.echo = echo]

\* push, lines 1899-1901: M_kirepo from the working directory, then lock.
PushStart ==
    /\ run.pc = "start"
    /\ IF M_kirepo(wc).k = "Err"
       THEN run' = Ended(Raised("AttributeError"), "") /\ con' = con
       ELSE IF begin_exclusive(con, Holds2) # "locked"
       THEN run' = Ended(Raised("OperationalError"), "") /\ con' = con
       ELSE run' = [run EXCEPT !.pc = "locked"] /\ con' = begin_exclusive(con, Holds2)
    /\ UNCHANGED <<col, colName, wc, log, rival, fn>>

\* _push, lines 1909-1914: the digest of the collection and the last line
\* of the hashes log.
PushCheck ==
    /\ run.pc = "locked"
    /\ run' = IF wc.hashes = <<>> THEN Ended(Raised("IndexError"), "")
              ELSE IF ~md5sum_in(md5(col), Last(wc.hashes))
              THEN Ended(Err("UpdatesRejectedError"), "")
              ELSE [run EXCEPT !.pc = "checked"]
    /\ UNCHANGED <<col, colName, wc, con, log, rival, fn>>

\* _push, line 1948: get_deltas_since_last_push, that is diff_repos.
PushDiff ==
    /\ run.pc = "checked"
    /\ LET deltas == diff_repos(wc.mirror.tree, Last(wc.commits))
       IN run' = [run EXCEPT !.pc = "diffed", !.deltas = deltas,
                             !.todo = loop_order(deltas)]
    /\ UNCHANGED <<col, colName, wc, con, log, rival, fn>>

\* process_deltas, lines 1968-1979: without deltas "up to date" is reported
\* and Ok returned; else the collection is copied to a temporary directory.
ProcessStart ==
    /\ run.pc = "diffed"
    /\ run' = IF run.deltas = <<>> THEN Ended(Ok, "ki push: up to date.")
              ELSE [run EXCEPT !.pc = "copied", !.a = col]
    /\ UNCHANGED <<col, colName, wc, con, log, rival, fn>>

\* process_deltas, lines 2007-2008: git stash with the untracked files, and
\* a hard reset to HEAD.
Stash ==
    /\ run.pc = "copied"
    /\ run' = [run EXCEPT !.pc = "stashed", !.stash = wc.entries \cap {USER_FILE}]
    /\ wc' = [wc EXCEPT !.entries = @ \ {USER_FILE}, !.tree = Last(wc.commits)]
    /\ UNCHANGED <<col, colName, con, log, rival, fn>>

\* process_deltas, lines 2018-2072: one turn of the loop over the deltas.
\* The notes changed are those of the file Anki has open.
ApplyDelta ==
    /\ run.pc = "stashed"
    /\ run.todo # <<>>
    /\ LET opened == IF with_anki = "new_col_file" THEN run.a ELSE col
           st == apply_delta([a |-> opened, tree |-> wc.tree,
                              num_new_nids |-> run.num_new_nids], Head(run.todo))
       IN /\ run' = [run EXCEPT !.todo = Tail(@),
                                !.applied = Append(@, Head(run.todo)),
                                !.a = IF with_anki = "new_col_file" THEN st.a ELSE @,
                                !.num_new_nids = st.num_new_nids]
          /\ col' = IF with_anki = "new_col_file" THEN col ELSE st.a
          /\ wc' = [wc EXCEPT !.tree = st.tree]
    /\ UNCHANGED <<colName, con, log, rival, fn>>

\* process_deltas, lines 2076-2087: with new nids, everything is added and
\* committed in the main repository ("Generated new nid(s).").
CommitNids ==
    /\ run.pc = "stashed"
    /\ run.todo = <<>>
    /\ run' = [run EXCEPT !.pc = "committed"]
    /\ wc' = IF run.num_new_nids > 0
             THEN [wc EXCEPT !.commits = Append(@, wc.tree)]
             ELSE wc
    /\ UNCHANGED <<col, colName, con, log, rival, fn>>

\* process_deltas, line 2090: backup(kirepo.col_file).
Backup ==
    /\ run.pc = "committed"
    /\ LET r == backup(wc, run.cwd, col)
       IN /\ run' = IF r.res.k = "Ok"
                    THEN [run EXCEPT !.pc = "backed", !.backed = TRUE]
                    ELSE [Ended(r.res, "") EXCEPT !.backed = TRUE]
          /\ wc' = r.wc
    /\ UNCHANGED <<col, colName, con, log, rival, fn>>

\* process_deltas, line 2091: the copy is copied over the collection.
Overwrite ==
    /\ run.pc = "backed"
    /\ col' = run.a
    /\ run' = [run EXCEPT !.pc = "overwrote", !.over = TRUE]
    /\ UNCHANGED <<colName, wc, con, log, rival, fn>>

\* process_deltas, lines 2095-2096: the new digest goes to the hashes log.
AppendHash ==
    /\ run.pc = "overwrote"
    /\ wc' = append_md5sum(wc, colName, md5(col))
    /\ run' = [run EXCEPT !.pc = "appended"]
    /\ UNCHANGED <<col, colName, con, log, rival, fn>>

\* process_deltas, lines 2103-2104: the mirror is removed, and the name
\* stage_kirepo, which process_deltas does not have, raises NameError.
RemoveMirror ==
    /\ run.pc = "appended"
    /\ wc' = [wc EXCEPT !.entries = @ \ {NO_SM_DIR}, !.mirror = NoMirror]
    /\ run' = Ended(Raised("NameError"), "")
    /\ UNCHANGED <<col, colName, con, log, rival, fn>>

\* A second ki command (push or pull) on the same collection: lock, then
\* the digest of the collection and the hashes log, then its end, when its
\* connection goes.
RivalLock ==
    /\ rival = "idle"
    /\ run.pc # "idle"
    /\ M_kirepo(wc).k = "Ok"
    /\ rival' = IF begin_exclusive("none", Holds1) = "locked" THEN "locked"
                ELSE "refused"
    /\ UNCHANGED <<col, colName, wc, con, log, run, fn>>

RivalRead ==
    /\ rival = "locked"
    /\ rival' = "read"
    /\ UNCHANGED <<col, colName, wc, con, log, run, fn>>

RivalExit ==
    /\ rival = "read"
    /\ rival' = "exited"
    /\ UNCHANGED <<col, colName, wc, con, log, run, fn>>

\* A clone or a pull once the push has ended.
After ==
    /\ run.pc = "done"
    /\ ~Holds2
    /\ Len(log) < MaxAfter
    /\ (Clone \/ Pull)

NextPush ==
    \/ PushStart \/ PushCheck \/ PushDiff \/ ProcessStart \/ Stash
    \/ ApplyDelta \/ CommitNids \/ Backup \/ Overwrite \/ AppendHash
    \/ RemoveMirror \/ RivalLock \/ RivalRead \/ RivalExit \/ After

SpecPush == InitPush /\ [][NextPush]_vars

\* ------------------------------------------------------------------------
\* Functions on their own: one function of the source applied to inputs
\* drawn in InitFn, the other variables as they are before any command.

\* The filesystem root; a directory is named by its depth below it.
FS_ROOT == 0

\* The deepest working directory a walk starts from.
MaxDepth == 3

\* What fftest gives for <directory>/.ki .
KiTests == {"NoPath", "ExtantFile", "EmptyDir", "ExtantDir"}

\* fparent: the parent of a directory, the root for the root.
fparent(path) == IF path = FS_ROOT THEN FS_ROOT ELSE path - 1

\* A plausible slip of the test in M_kirepo: any path named .ki counts.
is_ki_dir_or_file(ki_dir) == ki_dir # "NoPath"

\* isinstance(ki_dir, ExtantDir) in M_kirepo; EmptyDir is a subclass of
\* ExtantDir.
is_ki_dir(ki_dir) == ki_dir \in {"ExtantDir", "EmptyDir"}

\* The inputs of M_kirepo: what each directory of the chain holds under the
\* name .ki, and the working directory.
M_kirepo_inputs ==
    {[f |-> "M_kirepo", ki |-> k, cwd |-> d, current |-> d, steps |-> 0,
      pc |-> "loop", res |-> Ok] :
        k \in [0..MaxDepth -> KiTests], d \in 0..MaxDepth}

\* One pass of the loop of M_kirepo, or the statements after it: the loop
\* ends at the root without looking into it, or at a directory that holds
\* a sidecar directory.  The later checks of the sidecar's parts are those
\* of M_kirepo(w).
M_kirepo_walk ==
    /\ fn.f = "M_kirepo"
    /\ fn.pc = "loop"
    /\ fn' = IF fn.current # FS_ROOT /\ ~is_ki_dir(fn.ki[fn.current])
             THEN [fn EXCEPT !.current = fparent(@), !.steps = @ + 1]
             ELSE [fn EXCEPT !.pc = "done",
                             !.res = IF fn.current = FS_ROOT
                                     THEN Err("NotKiRepoError") ELSE Ok]
    /\ UNCHANGED <<col, colName, wc, con, log, run, rival>>

\* ------------------------------------------------------------------------
\* The note grammar (section 4.B of the specification; grammar.lark is not
\* among the sources, src/tests/test_parser.py is).  A text is a sequence
\* of lines, a line a sequence of characters without its line feed; the
\* lines from "nid:" to the blank line before the first field are one
\* symbol each.

\* A slip of the character class of a field body: form feed is let pass.
ASCII_CONTROLS_BUT_FF == {"NUL", "BEL", "BS", "VT"}

\* The control characters no part of a note may hold.
BAD_ASCII_CONTROLS == {"NUL", "BEL", "BS", "VT", "FF"}

\* The characters a field name may not hold, and may not start with.
BAD_FIELDNAME_CHARS == {":", "{", "}", "\""} \cup BAD_ASCII_CONTROLS
BAD_START_FIELDNAME_CHARS == {"#", "/", "^"} \cup BAD_FIELDNAME_CHARS

\* The lines between the title and the first field.
MetaLines ==
    << <<"nid: 1">>, <<"model: a">>, <<"deck: a">>, <<"tags:">>,
       <<"markdown: false">>, <<>> >>

\* How many characters of S follow one another in line from column c on.
Run(line, c, S) ==
    CHOOSE n \in 0..Len(line) :
        /\ \A i \in c..(c + n - 1) : i <= Len(line) /\ line[i] \in S
        /\ c + n > Len(line) \/ line[c + n] \notin S

\* The first column from c on that holds a character of S, 0 if none does.
Find(line, c, S) ==
    IF \E i \in c..Len(line) : line[i] \in S
    THEN CHOOSE i \in c..Len(line) :
             line[i] \in S /\ \A j \in c..(i - 1) : line[j] \notin S
    ELSE 0

\* The rest of a line from column c, with its line feed.
Rest(line, c) == SubSeq(line, c, Len(line)) \o <<"LF">>

ParseError(line, column, token, expected) ==
    [k |-> "Err", line |-> line, column |-> column, token |-> token,
     expected |-> expected]

Parsed(next) == [k |-> "Ok", next |-> next]

\* A slip of the lexer: "##" is taken from any longer run of "#".
sentinel_shortest(line) == IF Run(line, 1, {"#"}) >= 2 THEN 2 ELSE 0

\* The length of the token of "#" the lexer takes at the start of a line:
\* the longest of "###" and "##" that is there, 0 when neither is.
sentinel(line) ==
    LET h == Run(line, 1, {"#"})
    IN IF h >= 3 THEN 3 ELSE IF h = 2 THEN 2 ELSE 0

\* file: "## " TITLE NEWLINE
title(text, l) ==
    LET line == text[l]
        s == sentinel(line)
        c == s + 1 + Run(line, s + 1, {" "})
        bad == Find(line, c, BAD_ASCII_CONTROLS \cup {"\""})
    IN IF s # 2
       THEN ParseError(l, 1, IF s = 3 THEN <<"#", "#", "#">> ELSE Rest(line, 1),
                       "##")
       ELSE IF c > Len(line) THEN ParseError(l, c, <<"LF">>, "TITLENAME")
       ELSE IF bad # 0 THEN ParseError(l, bad, <<line[bad]>>, "TITLENAME")
       ELSE Parsed(l + 1)

\* field: "### " NAME NEWLINE
field_header(text, l) ==
    LET line == text[l]
        s == sentinel(line)
        c == s + 1 + Run(line, s + 1, {" "})
        bad == Find(line, c, BAD_FIELDNAME_CHARS)
    IN IF s # 3
       THEN ParseError(l, 1, IF s = 2 THEN <<"#", "#">> ELSE Rest(line, 1),
                       "FIELDSENTINEL")
       ELSE IF c > Len(line) THEN ParseError(l, c, <<"LF">>, "ANKINAME")
       ELSE IF line[c] \in BAD_START_FIELDNAME_CHARS
       THEN ParseError(l, c, Rest(line, c), "ANKINAME")
       ELSE IF bad # 0 THEN ParseError(l, bad, <<line[bad]>>, "ANKINAME")
       ELSE Parsed(l + 1)

\* BODY: the lines up to the next field header or the end of the text,
\* none of them with a forbidden control character.
RECURSIVE body(_, _)
body(text, l) ==
    IF l > Len(text) \/ sentinel(text[l]) = 3 THEN Parsed(l)
    ELSE LET bad == Find(text[l], 1, BAD_ASCII_CONTROLS)
         IN IF bad # 0 THEN ParseError(l, bad, <<text[l][bad]>>, "FIELDLINE")
            ELSE body(text, l + 1)

\* field+
RECURSIVE field_list(_, _)
field_list(text, l) ==
    IF l > Len(text) THEN ParseError(l, 1, <<"$END">>, "FIELDSENTINEL")
    ELSE LET h == field_header(text, l)
             b == body(text, h.next)
         IN IF h.k = "Err" THEN h
            ELSE IF b.k = "Err" THEN b
            ELSE IF b.next > Len(text) THEN b
            ELSE field_list(text, b.next)

\* The lines "nid:" to the blank line, from line l on.
meta(text, l) ==
    IF \E i \in 1..Len(MetaLines) :
           l + i - 1 > Len(text) \/ text[l + i - 1] # MetaLines[i]
    THEN LET i == CHOOSE i \in 1..Len(MetaLines) :
                      /\ l + i - 1 > Len(text) \/ text[l + i - 1] # MetaLines[i]
                      /\ \A j \in 1..(i - 1) : text[l + j - 1] = MetaLines[j]
         IN ParseError(l + i - 1, 1, <<>>, "header")
    ELSE Parsed(l + Len(MetaLines))

\* parser.parse(note): blank lines before the title are passed over (the
\* texts of the tests start with one), then title, header lines and fields.
parse(text) ==
    LET l == 1 + Run(text, 1, {<<>>})
        t == title(text, l)
        m == meta(text, t.next)
    IN IF l > Len(text) THEN ParseError(l, 1, <<"$END">>, "##")
       ELSE IF t.k = "Err" THEN t
       ELSE IF m.k = "Err" THEN m
       ELSE field_list(text, m.next)

\* The most "#" a title or field header of the inputs starts with, the most
\* blank lines before the title, and the longest first line of a field.
MaxHashes == 4
MaxLead == 1
MaxBody == 2

Hashes(n) == [i \in 1..n |-> "#"]

BodyLines ==
    UNION {[1..n -> {"a"} \cup {"NUL", "BEL", "BS", "VT", "FF"}] : n \in 1..MaxBody}

\* The texts of the tests of the parser: title, header lines, a field "a"
\* with a one-line body and a blank line, a field "b".
NoteText(lead, th, fh, b) ==
    [i \in 1..lead |-> <<>>]
    \o << Hashes(th) \o <<" ", "a">> >>
    \o MetaLines
    \o << Hashes(fh) \o <<" ", "a">>, b, <<>>, <<"#", "#", "#", " ", "b">>, <<"s">> >>

parse_inputs ==
    {[f |-> "parse", lead |-> n, th |-> th, fh |-> fh, body |-> b,
      text |-> NoteText(n, th, fh, b), pc |-> "call", res |-> Ok] :
        n \in 0..MaxLead, th \in 0..MaxHashes, fh \in 0..MaxHashes,
        b \in BodyLines}

\* The parser is run on the text.
Parse ==
    /\ fn.f = "parse"
    /\ fn.pc = "call"
    /\ fn' = [fn EXCEPT !.pc = "done", !.res = parse(fn.text)]
    /\ UNCHANGED <<col, colName, wc, con, log, run, rival>>

\* ------------------------------------------------------------------------
\* The field names of a note file against those of its notetype.

\* model["flds"] of the notetype of the note: its field names in order.
model_field_names == <<"Front", "Back">>

\* The field names a note file of the inputs draws from.
FieldNames == {"Front", "Back", "Extra"}

\* The bodies of the fields of a note file, by position.
Bodies == <<"p", "q", "t">>

\* flatnote.fields: an ordered map, here a sequence of name and body with
\* no name twice.
FlatFields ==
    {[i \in DOMAIN k |-> [name |-> k[i], body |-> Bodies[i]]] :
        k \in {k \in UNION {[1..n -> FieldNames] : n \in 1..3} :
                  \A i, j \in DOMAIN k : i # j => k[i] # k[j]}}

\* The names of a sequence of fields.
keys(fields) == [i \in DOMAIN fields |-> fields[i].name]

\* validate_flatnote_fields: the value it returns, a ValueError when the
\* names of the file are not those of the notetype in order, else None.
validate_flatnote_fields(model, fields) ==
    IF Len(fields) # Len(model) THEN "ValueError"
    ELSE IF \E i \in DOMAIN model : model[i] # fields[i].name THEN "ValueError"
    ELSE "None"

\* A note of the notetype in the collection that Anki has open.
OldNote == [Front |-> "r", Back |-> "s"]

\* kinote.n[key] = value for each field of the file, then flush: a name the
\* notetype does not have raises KeyError before the flush.
set_fields(n, fields) ==
    IF \E i \in DOMAIN fields : fields[i].name \notin DOMAIN n
    THEN [res |-> Raised("KeyError"), n |-> n]
    ELSE [res |-> Ok,
          n |-> [key \in DOMAIN n |->
                   IF \E i \in DOMAIN fields : fields[i].name = key
                   THEN fields[CHOOSE i \in DOMAIN fields : fields[i].name = key].body
                   ELSE n[key]]]

\* update_kinote, the part on the fields: the value validate_flatnote_fields
\* returns is dropped, then the fields are set.
update_kinote_fields(n, fields) ==
    LET dropped == validate_flatnote_fields(model_field_names, fields)
    IN set_fields(n, fields)

\* note.fields = [... for x in flatnote.fields.values()] in
\* add_note_from_flatnote: the bodies of the file by position, the value of
\* validate_flatnote_fields dropped.  A list of another length than the
\* notetype's is handed to Anki as it is; Anki either adds it or raises.
add_note_fields(fields, anki_adds) ==
    LET dropped == validate_flatnote_fields(model_field_names, fields)
        values == [i \in DOMAIN fields |-> fields[i].body]
    IN IF Len(values) = Len(model_field_names) \/ anki_adds
       THEN [res |-> Ok, added |-> <<values>>]
       ELSE [res |-> Raised("Exception"), added |-> <<>>]

fields_inputs ==
    {[f |-> op, fields |-> x, n |-> OldNote, added |-> <<>>, pc |-> "call",
      res |-> Ok] : op \in {"update_kinote", "add_note_from_flatnote"},
                    x \in FlatFields}

\* update_kinote on the note of the nid of the file.
UpdateFields ==
    /\ fn.f = "update_kinote"
    /\ fn.pc = "call"
    /\ LET r == update_kinote_fields(fn.n, fn.fields)
       IN fn' = [fn EXCEPT !.pc = "done", !.res = r.res, !.n = r.n]
    /\ UNCHANGED <<col, colName, wc, con, log, run, rival>>

\* add_note_from_flatnote for a file whose nid the collection does not have.
AddFields ==
    /\ fn.f = "add_note_from_flatnote"
    /\ fn.pc = "call"
    /\ \E anki_adds \in BOOLEAN :
         LET r == add_note_fields(fn.fields, anki_adds)
         IN fn' = [fn EXCEPT !.pc = "done", !.res = r.res, !.added = r.added]
    /\ UNCHANGED <<col, colName, wc, con, log, run, rival>>

\* ------------------------------------------------------------------------
\* The ignore predicate of the diff engine.  A relative path is the
\* sequence of its components; an absolute path is a base directory
\* ("root": the working copy, "a_dir": the checkout of the baseline,
\* "b_dir": the checkout of HEAD), a relative path, and what the file
\* system holds there: "none", "note" (a file is_anki_note accepts), "text"
\* (a file the parser reads as a note but is_anki_note does not accept: no
\* .md suffix, or a title other than "Note") or "other".

GITMODULES_FILE == ".gitmodules"

IGNORE == {GIT, KI, GITIGNORE_FILE, GITMODULES_FILE, MODELS_FILE}

\* The relative paths of the entries of a diff.
DiffPaths ==
    {<<"a", "x.md">>, <<"a", "y.md">>, <<KI, "x.md">>, <<MODELS_FILE>>,
     <<"a", MODELS_FILE>>, <<GITIGNORE_FILE>>, <<GITMODULES_FILE>>,
     <<"a", "x.txt">>}

\* path.name
name(path) == path[Len(path)]

\* What a file at a relative path can be.
FileKinds(path) ==
    IF name(path) \in {"x.md", "y.md"} THEN {"note", "text", "other"}
    ELSE IF name(path) = "x.txt" THEN {"text", "other"}
    ELSE {"other"}

\* is_anki_note(file)
is_anki_note(file) == file = "note"

\* path_ignore_fn: FALSE (ignore) when the name of the path is a pattern,
\* when root/<pattern> is the path or one of its parents, or when the path
\* is a file that is no note; TRUE otherwise.
path_ignore_fn(path, patterns, root) ==
    IF name(path.rel) \in patterns THEN FALSE
    ELSE IF \E p \in patterns : path.base = root /\ path.rel[1] = p THEN FALSE
    ELSE IF path.holds # "none" /\ ~is_anki_note(path.holds) THEN FALSE
    ELSE TRUE

\* ignore_fn of _push: path_ignore_fn with IGNORE and the root of the
\* working copy.
ignore_fn(path) == path_ignore_fn(path, IGNORE, "root")

\* The body of the loops of diff_repos for one entry, with the paths as
\* the source builds them: both calls of ignore_fn get a path below a_dir.
\* The statuses of the deltas appended, and whether both calls passed.
diff_entry(diff) ==
    LET a_path == [base |-> "a_dir", rel |-> diff.a_path, holds |-> diff.a_file]
        b_in_a == [base |-> "a_dir", rel |-> diff.b_path,
                   holds |-> IF diff.b_path = diff.a_path THEN diff.a_file
                             ELSE "none"]
        passed == ignore_fn(a_path) /\ ignore_fn(b_in_a)
        out(r, d) == [res |-> r, deltas |-> d, passed |-> passed]
    IN IF ~passed THEN out(Ok, <<>>)
       ELSE IF diff.change_type = "D"
       THEN IF diff.a_file # "none" THEN out(Ok, <<"D">>) ELSE out(Ok, <<>>)
       ELSE IF diff.b_file = "none" THEN out(Ok, <<>>)
       ELSE IF diff.change_type # "R" THEN out(Ok, <<>>)
       ELSE IF diff.a_file = "other" \/ diff.b_file = "other"
       THEN out(Raised("UnexpectedInput"), <<>>)
       ELSE IF diff.nids_differ THEN out(Ok, <<"D", "A">>)
       ELSE out(Ok, <<>>)

\* The entries a diff of two commits can have: a Deleted entry has its
\* file in the baseline only, an Added entry in HEAD only, a Renamed entry
\* has two paths, the others one path with a file on both sides.
DiffEntries ==
    {d \in [change_type : {"A", "D", "R", "M", "T"}, a_path : DiffPaths,
            b_path : DiffPaths, a_file : {"none", "note", "text", "other"},
            b_file : {"none", "note", "text", "other"}, nids_differ : BOOLEAN] :
        /\ (d.change_type = "R") = (d.a_path # d.b_path)
        /\ (d.a_file = "none") = (d.change_type = "A")
        /\ (d.b_file = "none") = (d.change_type = "D")
        /\ d.a_file \in FileKinds(d.a_path) \cup {"none"}
        /\ d.b_file \in FileKinds(d.b_path) \cup {"none"}
        /\ d.nids_differ => d.change_type \in {"R", "M"}}

diff_inputs ==
    {[f |-> "diff_repos", diff |-> d, pc |-> "call", res |-> Ok,
      deltas |-> <<>>, passed |-> FALSE] : d \in DiffEntries}

\* One turn of the loops of diff_repos.
DiffEntry ==
    /\ fn.f = "diff_repos"
    /\ fn.pc = "call"
    /\ LET r == diff_entry(fn.diff)
       IN fn' = [fn EXCEPT !.pc = "done", !.res = r.res, !.deltas = r.deltas,
                           !.passed = r.passed]
    /\ UNCHANGED <<col, colName, wc, con, log, run, rival>>

\* ------------------------------------------------------------------------
\* The names of the note files of one deck directory.

\* The name of a note file without its suffix .md, as the sequence of the
\* parts that "_" separates: "r_1" is the slug "r_1" and also the slug "r"
\* with the index 1.
stem(slug, i) ==
    LET parts == IF slug = "r_1" THEN <<"r", 1>> ELSE <<slug>>
    IN IF i = 0 THEN parts ELSE Append(parts, i)

\* The files a deck directory of the inputs holds before a note is written,
\* and the sort fields of the notes written into it.
DeckFiles == SUBSET {<<"r">>, <<"r", 1>>, <<"r", 2>>, <<"x">>}
SortFields == UNION {[1..n -> {"r", "R", "x", "r_1"}] : n \in 1..2}

write_deck_inputs ==
    {[f |-> "write_deck", files0 |-> d, files |-> d, notes |-> s, todo |-> s,
      i |-> 0, written |-> <<>>, index |-> <<>>, overwrote |-> FALSE] :
        d \in DeckFiles, s \in SortFields}

\* get_note_path for the next note of write_deck, one test of a name at a
\* time: <slug>.md, then <slug>_1.md, <slug>_2.md, ...; the first name that
\* is free is touched, and write_deck writes the note into it.
NotePath ==
    /\ fn.f = "write_deck"
    /\ fn.todo # <<>>
    /\ LET note_path == stem(slugify(Head(fn.todo)), fn.i)
       IN fn' = IF taken(note_path, fn.files)
                THEN [fn EXCEPT !.i = @ + 1]
                ELSE [fn EXCEPT !.files = @ \cup {note_path},
                                !.written = Append(@, note_path),
                                !.index = Append(@, fn.i),
                                !.overwrote = @ \/ note_path \in fn.files,
                                !.todo = Tail(@),
                                !.i = 0]
    /\ UNCHANGED <<col, colName, wc, con, log, run, rival>>

\* ------------------------------------------------------------------------
\* The directory of a deck.

\* Deck names are strings of at most MaxName characters.
MaxName == 4

\* str.split("::"): the separators are found from the left and do not
\* overlap.
RECURSIVE split(_)
split(s) ==
    LET seps == {i \in 1..(Len(s) - 1) : s[i] = ":" /\ s[i + 1] = ":"}
    IN IF seps = {} THEN <<s>>
       ELSE LET i == CHOOSE x \in seps : \A y \in seps : x <= y
            IN <<SubSeq(s, 1, i - 1)>> \o split(SubSeq(s, i + 2, Len(s)))

\* re.sub(r"^\.", r"", comp): one match at the start of the string.
sub(comp) ==
    IF comp # <<>> /\ comp[1] = "." THEN Tail(comp) ELSE comp

\* Path(targetdir, *components), relative to targetdir: pathlib drops the
\* empty components and the components ".".
DeckPath(components) ==
    SelectSeq(components, LAMBDA c : c # <<>> /\ c # <<".">>)

\* The deck names of the inputs: every string over a letter, the period
\* and the colon that has no empty component, since Anki keeps no deck
\* with an empty component.
create_deck_dir_inputs ==
    LET Strings == UNION {[1..n -> {"a", ".", ":"}] : n \in 1..MaxName}
        DeckNames ==
            {s \in Strings : \A i \in DOMAIN split(s) : split(s)[i] # <<>>}
    IN {[f |-> "create_deck_dir", pc |-> "start", deck_name |-> s,
         components |-> <<>>, deck_path |-> <<>>] : s \in DeckNames}

create_deck_dir ==
    /\ fn.f = "create_deck_dir"
    /\ fn.pc = "start"
    /\ LET components == [i \in DOMAIN split(fn.deck_name) |->
                              sub(split(fn.deck_name)[i])]
       IN fn' = [fn EXCEPT !.pc = "done", !.components = split(fn.deck_name),
                           !.deck_path = DeckPath(components)]
    /\ UNCHANGED <<col, colName, wc, con, log, run, rival>>

\* ------------------------------------------------------------------------
\* The notetype manifests of a write-out.

\* The decks of the inputs are some of a, a::a, .a and the deck whose name
\* is one period, each with the notetypes of its notes; the collection has
\* the notetypes 1 and 2.
write_notes_inputs ==
    LET Names == {<<"a">>, <<"a", ":", ":", "a">>, <<".", "a">>, <<".">>}
        Decks == UNION {[S -> SUBSET {1, 2} \ {{}}] : S \in SUBSET Names \ {{}}}
    IN {[f |-> "write_notes", pc |-> "start", decks |-> d, models_map |-> {1, 2},
         todo |-> <<>>, manifest |-> <<>>] : d \in Decks}

\* The directory of a deck below targetdir, as create_deck_dir builds it.
deck_dir(deck_name) ==
    DeckPath([i \in DOMAIN split(deck_name) |-> sub(split(deck_name)[i])])

\* write_notes up to its loop: the manifest of every notetype of the
\* collection is written to targetdir, and the deck names are sorted by
\* length, the longest first; names of one length come in the order of the
\* set, which is any order.
write_models ==
    /\ fn.f = "write_notes"
    /\ fn.pc = "start"
    /\ \E order \in [1..Cardinality(DOMAIN fn.decks) -> DOMAIN fn.decks] :
        /\ \A i, j \in DOMAIN order :
            /\ i # j => order[i] # order[j]
            /\ i < j => Len(order[i]) >= Len(order[j])
        /\ fn' = [fn EXCEPT !.pc = "decks", !.todo = order,
                            !.manifest = (<<>> :> fn.models_map)]
    /\ UNCHANGED <<col, colName, wc, con, log, run, rival>>

\* One pass of the loop of write_notes: write_deck opens models.json of the
\* deck's directory for writing and dumps the notetypes of this deck's notes.
write_deck_models ==
    /\ fn.f = "write_notes"
    /\ fn.pc = "decks"
    /\ LET deck_name == Head(fn.todo)
           deck_models_map == fn.decks[deck_name] \cap fn.models_map
       IN fn' = [fn EXCEPT !.todo = Tail(@),
                           !.pc = IF Tail(fn.todo) = <<>> THEN "done" ELSE @,
                           !.manifest = (deck_dir(deck_name) :> deck_models_map) @@ @]
    /\ UNCHANGED <<col, colName, wc, con, log, run, rival>>

\* ------------------------------------------------------------------------
\* The tags of path values.

\* The operations start from one empty directory, the path <<>>, held by one
\* value tagged EmptyDir; a run makes at most MaxPathOps operations.
\* fs gives the kind of every path that exists, vals the values the
\* program holds, each with its path and its class.
MaxPathOps == 3

path_inputs ==
    {[f |-> "paths", n |-> 0, fs |-> (<<>> :> "dir"),
      vals |-> <<[path |-> <<>>, tag |-> "EmptyDir"]>>]}

\* Path.touch(): the file is created unless the path exists.
touched(fs, path) == IF path \in DOMAIN fs THEN fs ELSE (path :> "file") @@ fs

\* ffmksubdir on the value v: the subdirectory is made, the class of the
\* argument is set to ExtantDir, the subdirectory is returned as an EmptyDir.
Ffmksubdir ==
    /\ fn.f = "paths"
    /\ fn.n < MaxPathOps
    /\ \E v \in DOMAIN fn.vals, suffix \in {"x", "y"} :
        LET directory == fn.vals[v]
            subdir == Append(directory.path, suffix)
        IN /\ directory.tag = "EmptyDir"
           /\ subdir \notin DOMAIN fn.fs
           /\ fn' = [fn EXCEPT !.n = @ + 1,
                               !.fs = (subdir :> "dir") @@ @,
                               !.vals = Append([@ EXCEPT ![v].tag = "ExtantDir"],
                                               [path |-> subdir, tag |-> "EmptyDir"])]
    /\ UNCHANGED <<col, colName, wc, con, log, run, rival>>

\* ftouch on the value v, an ExtantDir or a value of its subclass EmptyDir:
\* the file is touched and returned as an ExtantFile.
Ftouch ==
    /\ fn.f = "paths"
    /\ fn.n < MaxPathOps
    /\ \E v \in DOMAIN fn.vals, token \in {"x", "y"} :
        LET directory == fn.vals[v]
            path == Append(directory.path, token)
        IN /\ directory.tag \in {"EmptyDir", "ExtantDir"}
           /\ fn' = [fn EXCEPT !.n = @ + 1,
                               !.fs = touched(@, path),
                               !.vals = Append(@, [path |-> path, tag |-> "ExtantFile"])]
    /\ UNCHANGED <<col, colName, wc, con, log, run, rival>>

\* fmkleaves on the value v with the file x, the directory y, both or
\* neither: the files are touched, then the subdirectories are made with
\* ffmksubdir; the Leaves hold M_xdir(root), the new files and the `dirs`
\* argument, which holds no path value.
Fmkleaves ==
    /\ fn.f = "paths"
    /\ fn.n < MaxPathOps
    /\ \E v \in DOMAIN fn.vals, files \in SUBSET {"x"}, dirs \in SUBSET {"y"} :
        LET root == fn.vals[v]
            new_files == {Append(root.path, token) : token \in files}
            new_dirs == {Append(root.path, token) : token \in dirs}
            made == [p \in new_files \cup new_dirs |->
                        IF p \in new_files THEN "file" ELSE "dir"]
            retagged == IF dirs = {} THEN fn.vals
                        ELSE [fn.vals EXCEPT ![v].tag = "ExtantDir"]
        IN /\ root.tag = "EmptyDir"
           /\ \A p \in new_files \cup new_dirs : p \notin DOMAIN fn.fs
           /\ fn' = [fn EXCEPT !.n = @ + 1,
                               !.fs = made @@ @,
                               !.vals = retagged
                                   \o <<[path |-> root.path, tag |-> "ExtantDir"]>>
                                   \o SeqOf({[path |-> p, tag |-> "ExtantFile"] : p \in new_files})]
    /\ UNCHANGED <<col, colName, wc, con, log, run, rival>>

\* ------------------------------------------------------------------------
\* The file of a note that push has added under a new nid.

\* get_sort_field_text: "None" stands for None.  A notetype without the key
\* flds or without the key sortf raises KeyError in field_map or sort_idx,
\* a sort index that no field has leaves sort_field_name None, and a field
\* name the note does not have raises KeyError.
get_sort_field_text(note, notetype) ==
    IF ~notetype.flds THEN "None"
    ELSE IF notetype.sortf = -1 THEN "None"
    ELSE IF notetype.sortf + 1 \notin DOMAIN model_field_names THEN "None"
    ELSE IF model_field_names[notetype.sortf + 1] \notin DOMAIN note THEN "None"
    ELSE note[model_field_names[notetype.sortf + 1]]

\* The inputs: the note file of the delta, with the nid 0, is in the working
\* tree, as git reset --hard has left it, alone or beside the file r.md of
\* note 1; kinote.n.note_type() finds the notetype or does not; the
\* notetype has the key flds or not, and its sortf is absent (-1) or one of
\* 0, 1, 2, the notetype having two fields.  The note was added under nid 3.
regenerate_inputs ==
    LET file == (<<"new", 0>> :> [nid |-> 0, Front |-> "r", Back |-> "s"])
        other == (<<"r", 0>> :> [nid |-> 1, Front |-> "r", Back |-> "s2"])
    IN {[f |-> "regenerate", pc |-> "added", relpath |-> <<"new", 0>>,
         tree |-> t, kinote |-> [nid |-> 3, Front |-> "r", Back |-> "s"],
         model |-> [found |-> m, flds |-> fl, sortf |-> s],
         unlinked |-> FALSE, num_new_nids |-> 0] :
            t \in {file, file @@ other}, m \in BOOLEAN, fl \in BOOLEAN,
            s \in -1..2}

\* process_deltas, lines 2043-2072, for a note add_note_from_flatnote has
\* added: the file at the delta's path is unlinked when it is a file; then
\* the notetype and the sort field are looked up, each `continue` leaving
\* the loop body; then the note is written to the path get_note_path gives.
regenerate ==
    /\ fn.f = "regenerate"
    /\ fn.pc = "added"
    /\ LET is_file == fn.relpath \in DOMAIN fn.tree
           unlinked == [p \in DOMAIN fn.tree \ {fn.relpath} |-> fn.tree[p]]
           sort_field_text ==
               get_sort_field_text([Front |-> fn.kinote.Front,
                                    Back |-> fn.kinote.Back], fn.model)
           new_note_path == get_note_path(sort_field_text, DOMAIN unlinked)
       IN fn' = IF ~fn.model.found \/ sort_field_text = "None"
                THEN [fn EXCEPT !.pc = "done", !.tree = unlinked,
                                !.unlinked = is_file]
                ELSE [fn EXCEPT !.pc = "done",
                                !.tree = (new_note_path :> fn.kinote) @@ unlinked,
                                !.unlinked = is_file,
                                !.num_new_nids = @ + 1]
    /\ UNCHANGED <<col, colName, wc, con, log, run, rival>>

\* ------------------------------------------------------------------------
\* The two merges of pull.

\* The inputs: a working copy in sync with Db0, the collection edited to
\* DbX since, the clone of the collection done; the exit code of the git
\* pull into the checkout of the last push (theirs), the exit code of the
\* git pull into the main repository (returncode), and whether the
\* collection is written to while pull runs (changed).
pull_changes_inputs ==
    {[f |-> "pull_changes", pc |-> "cloned", w |-> SyncedWc(Db0, PlainName),
      db |-> DbX, theirs |-> t, returncode |-> c, changed |-> ch,
      merged |-> FALSE, res |-> Ok, echo |-> ""] :
        t \in {0, 1}, c \in {0, 1}, ch \in BOOLEAN}

\* pull_changes_from_remote_repo: git_subprocess_pull raises ValueError on
\* an exit code other than 0; the exit code of the second git pull, run
\* with check=False, is not looked at; then the digest is appended to the
\* hashes log and compared with that of the collection.
pull_changes_from_remote_repo ==
    /\ fn.f = "pull_changes"
    /\ fn.pc = "cloned"
    /\ fn' = IF fn.theirs # 0
             THEN [fn EXCEPT !.pc = "pulled", !.res = Raised("ValueError")]
             ELSE [fn EXCEPT
                      !.pc = "pulled",
                      !.merged = fn.returncode = 0,
                      !.w = append_md5sum(
                                IF fn.returncode = 0
                                THEN [@ EXCEPT !.tree = write_notes(fn.db),
                                               !.commits = Append(@, write_notes(fn.db))]
                                ELSE @,
                                PlainName, md5(fn.db)),
                      !.res = IF fn.changed
                              THEN Err("CollectionChecksumError") ELSE Ok]
    /\ UNCHANGED <<col, colName, wc, con, log, run, rival>>

\* The next pull, the collection being as it was: _pull up to its test of
\* the last line of the hashes log.
pull_again ==
    /\ fn.f = "pull_changes"
    /\ fn.pc = "pulled"
    /\ ~fn.changed
    /\ LET r == _pull(fn.w, fn.db, PlainName, lock("none"))
       IN fn' = [fn EXCEPT !.pc = "again", !.res = r.res, !.echo = r.echo]
    /\ UNCHANGED <<col, colName, wc, con, log, run, rival>>

\* ------------------------------------------------------------------------
\* _clone beside a writer of the collection file.

\* _clone of a collection file into an empty directory, one statement at a
\* time.  clone takes no lock, so another process (a push that copies its
\* edited copy over the collection, or Anki) can write the file between
\* any two of them; one such write is taken.
clone_inputs ==
    {[f |-> "_clone", pc |-> "start", col_file |-> db, over |-> FALSE,
      w |-> [NoWc EXCEPT !.kind = "Dir"], md5sum |-> md5(EmptyTree),
      rendered |-> EmptyTree, res |-> Ok] : db \in {Db0, DbX, Db2}}

\* _clone, lines 1710-1718: the sidecar and its leaves, then the digest of
\* the collection file.
clone_md5sum ==
    /\ fn.f = "_clone"
    /\ fn.pc = "start"
    /\ fn' = [fn EXCEPT !.pc = "hashed",
                        !.w = fmkleaves([@ EXCEPT !.entries = @ \cup {KI}]).wc,
                        !.md5sum = md5(fn.col_file)]
    /\ UNCHANGED <<col, colName, wc, con, log, run, rival>>

\* _clone, lines 1722-1729: .gitignore, then write_repository, which opens
\* the collection file and writes the notes it finds.
clone_write_repository ==
    /\ fn.f = "_clone"
    /\ fn.pc = "hashed"
    /\ LET ignored == [fn.w EXCEPT !.entries = @ \cup {GITIGNORE_FILE}]
           wrote == write_repository(ignored, fn.col_file, "ok", FALSE)
       IN fn' = [fn EXCEPT !.pc = "wrote", !.w = wrote.wc, !.res = wrote.res,
                           !.rendered = fn.col_file]
    /\ UNCHANGED <<col, colName, wc, con, log, run, rival>>

\* _clone, lines 1730-1739: init_repos, and when it is Ok the digest
\* computed at line 1718 is appended to the hashes log.
clone_init_repos ==
    /\ fn.f = "_clone"
    /\ fn.pc = "wrote"
    /\ LET leaves == fmkleaves(fn.w)
           initialized == init_repos(fn.w, leaves, fn.res)
       IN fn' = IF initialized.res.k # "Ok"
                THEN [fn EXCEPT !.pc = "done", !.w = initialized.wc,
                                !.res = initialized.res]
                ELSE [fn EXCEPT !.pc = "done",
                                !.w = append_md5sum(initialized.wc, PlainName,
                                                    fn.md5sum)]
    /\ UNCHANGED <<col, colName, wc, con, log, run, rival>>

\* Another process writes the collection file while _clone runs.
collection_overwritten ==
    /\ fn.f = "_clone"
    /\ fn.pc # "done"
    /\ ~fn.over
    /\ \E db \in {Db0, DbX, Db2} \ {fn.col_file} :
        fn' = [fn EXCEPT !.col_file = db, !.over = TRUE]
    /\ UNCHANGED <<col, colName, wc, con, log, run, rival>>

FnInputs == M_kirepo_inputs \cup parse_inputs \cup fields_inputs
    \cup diff_inputs \cup write_deck_inputs
    \cup create_deck_dir_inputs
    \cup write_notes_inputs
    \cup path_inputs
    \cup regenerate_inputs
    \cup pull_changes_inputs
    \cup clone_inputs

InitFn ==
    /\ col = Db0
    /\ colName = PlainName
    /\ wc = NoWc
    /\ con = "none"
    /\ log = <<>>
    /\ run = NoRun
    /\ rival = "idle"
    /\ fn \in FnInputs

NextFn == M_kirepo_walk \/ Parse \/ UpdateFields \/ AddFields
    \/ DiffEntry \/ NotePath
    \/ create_deck_dir
    \/ write_models \/ write_deck_models
    \/ Ffmksubdir \/ Ftouch \/ Fmkleaves
    \/ regenerate
    \/ pull_changes_from_remote_repo \/ pull_again
    \/ clone_md5sum \/ clone_write_repository \/ clone_init_repos
    \/ collection_overwritten

SpecFn == InitFn /\ [][NextFn]_vars

\* ------------------------------------------------------------------------
\* Properties.

\* The step is the command op.
IsOp(op) == Len(log') = Len(log) + 1 /\ Last(log').op = op

\* The log ends with the command op, which neither a precondition (no
\* working copy, occupied target, stale hashes log) nor the environment
\* (tidy) turned away.
Ran(op) == log # <<>> /\ Last(log).op = op /\ ~Last(log).refused

\* The entry before the last one.
Prev == log[Len(log) - 1]

C2_HashesLogTracksCollection ==
    (Ran("clone") \/ Ran("push") \/ Ran("pull"))
    => (wc.hashes # <<>> /\ Last(wc.hashes).md5 = md5(col))

\* C3 (as claimed): after a committed edit of a field body of the file of an
\* existing note and a push that was not turned away, the note of that nid
\* in the collection holds the field bodies of the file.
C3_PushStoresEditedField ==
    (/\ Len(log) >= 2
     /\ Ran("push")
     /\ Prev.op = "commit"
     /\ Prev.kind = "field"
     /\ Prev.nid \in DOMAIN col)
    => (/\ col[Prev.nid].front = wc.tree[Prev.path].front
        /\ col[Prev.nid].back = wc.tree[Prev.path].back)

\* C4 (as claimed): a push right after a clone that was not turned away
\* reports "up to date" and changes neither the collection nor the working
\* copy.
C4_PushAfterCloneUpToDate ==
    [][(IsOp("push") /\ Ran("clone"))
       => (/\ Last(log').echo = "ki push: up to date."
           /\ UNCHANGED <<col, wc>>)]_vars

\* C5 (as claimed): a push right after a push that was not turned away
\* reports "up to date" and leaves the collection as it is.
C5_PushTwiceUpToDate ==
    [][(IsOp("push") /\ Ran("push"))
       => (/\ Last(log').echo = "ki push: up to date."
           /\ col' = col)]_vars

C7_PullBringsDbEdit ==
    (/\ Len(log) >= 2
     /\ Ran("pull")
     /\ ~colName.embeds
     /\ Prev.op = "dbedit"
     /\ Prev.kind = "field"
     /\ wc.last_push = Len(wc.commits))
    => \E p \in DOMAIN wc.tree :
          /\ wc.tree[p].nid = Prev.nid
          /\ wc.tree[p].front = col[Prev.nid].front
          /\ wc.tree[p].back = col[Prev.nid].back

\* C8: a clone into a path that is a file, a directory with entries or
\* another kind of file fails with TargetExistsError and leaves the path
\* and all of its content as they were.
C8_CloneKeepsOccupiedTarget ==
    [][(/\ IsOp("clone")
        /\ fftest(wc) \in {"ExtantFile", "ExtantDir", "ExtantStrangePath"})
       => (/\ Last(log').status = "Err"
           /\ Last(log').err = "TargetExistsError"
           /\ UNCHANGED <<col, wc>>)]_vars

\* C8 witness: a clone into a directory that holds a file of the user was
\* refused, and the file is still there.
C8_Witness ==
    /\ log # <<>>
    /\ Last(log).op = "clone"
    /\ Last(log).err = "TargetExistsError"
    /\ wc.kind = "Dir"
    /\ USER_FILE \in wc.entries

\* C9 (as claimed): when a step of clone failed after the target was
\* created or accepted, nothing is left at the target path and clone
\* returns, as an Err, the first error that occurred.
C9_CloneFailureCleansUp ==
    (/\ log # <<>>
     /\ Last(log).op = "clone"
     /\ Last(log).first \notin {"", "TargetExistsError"})
    => (/\ wc.kind = "NoPath"
        /\ Last(log).status = "Err"
        /\ Last(log).err = Last(log).first)

\* C10 (as claimed): after a clone that was not turned away the target is a
\* directory with the sidecar, its config, hashes, last_push, backups and
\* mirror repository, and last_push holds the id of HEAD.
C10_CloneLeavesWorkingCopy ==
    Ran("clone")
    => (/\ wc.kind = "Dir"
        /\ {KI, CONFIG_FILE, HASHES_FILE, LAST_PUSH_FILE, BACKUPS_DIR,
            NO_SM_DIR} \subseteq wc.entries
        /\ wc.mirror.repo
        /\ wc.commits # <<>>
        /\ wc.last_push = Len(wc.commits))

\* The deltas of the push taken step by step have been computed.
Diffed ==
    \/ run.pc \in {"diffed", "copied", "stashed", "committed", "backed",
                   "overwrote", "appended"}
    \/ run.backed
    \/ run.echo # ""

\* s is a prefix of t.
IsPrefix(s, t) == Len(s) <= Len(t) /\ \A i \in 1..Len(s) : s[i] = t[i]

\* C11: at every point of a push before the step that overwrites the
\* collection file, the file has the content it had when the push started:
\* the notes are changed in the temporary copy only.
C11_CollectionUntouchedBeforeOverwrite ==
    (run.pc # "idle" /\ ~run.over) => col = run.col0

\* C11 witness: a push is about to overwrite the collection; its copy has
\* the changes and the collection has none.
C11_Witness ==
    /\ run.pc = "backed"
    /\ run.a # col
    /\ col = run.col0

\* C12 (as claimed): at every point of a push before the step that
\* overwrites the collection file, the working tree is as it was when the
\* push started: the tracked note files, the untracked files and the
\* commits of the main repository.
C12_WorkingTreeKeptBeforeOverwrite ==
    (run.pc \notin {"idle", "done"} /\ ~run.over)
    => (/\ wc.tree = run.wc0.tree
        /\ wc.entries \cap {USER_FILE} = run.wc0.entries \cap {USER_FILE}
        /\ wc.commits = run.wc0.commits)

C14_HashesLogAppendOnly == [][IsPrefix(wc.hashes, wc'.hashes)]_vars

\* C14 witness: a push has added a line to a hashes log of one line.
C14_Witness ==
    /\ run.pc = "appended"
    /\ Len(wc.hashes) = 2
    /\ wc.hashes[1] = run.wc0.hashes[1]
    /\ wc.hashes[2].md5 = md5(col)

\* C15 (as claimed): when a push or a pull has returned, its connection no
\* longer has the exclusive transaction open.
C15_LockReleasedOnReturn ==
    (log # <<>> /\ Last(log).op \in {"push", "pull"}) => con # "locked"

\* C16: of two ki commands on one collection at most one is past its lock
\* at any time; the push reads the hashes log and the digest, and
\* overwrites the collection, with its exclusive transaction open and the
\* other command not past its lock; a command that tried to lock while the
\* other held the lock has not gone on.
C16_OneHolderOfTheLock ==
    /\ ~(Holds1 /\ Holds2)
    /\ run.pc \in {"locked", "backed"} => (con = "locked" /\ ~Holds2)
    /\ Holds2 => run.pc \in {"start", "done"}

\* C16 witness: the rival was refused the lock by a push that is about to
\* overwrite the collection.
C16_Witness ==
    /\ rival = "refused"
    /\ run.pc = "backed"
    /\ con = "locked"

\* A push starts that will get past M_kirepo and the check of the hashes
\* log, right after the commit of an edit of the given kind.
PushesEdit(kind) ==
    /\ IsOp("push")
    /\ log # <<>>
    /\ Last(log).op = "commit"
    /\ Last(log).kind = kind
    /\ M_kirepo(wc).k = "Ok"
    /\ wc.hashes # <<>>
    /\ md5sum_in(md5(col), Last(wc.hashes))

\* C17 (as claimed): when the diff between the baseline and HEAD is one
\* Renamed entry whose two sides carry different nids, the deltas are
\* Deleted(old file) then Added(new file) and no other, and the push
\* removes the note of the old nid, adds one note with the fields of the
\* new file, and changes no other note.
C17_RenameWithOtherNid ==
    [][(/\ PushesEdit("rename_nid")
        /\ Cardinality(diff_index(wc.mirror.tree, Last(wc.commits))) = 1
        /\ \A d \in diff_index(wc.mirror.tree, Last(wc.commits)) :
              d.change_type = "R")
       => LET A == wc.mirror.tree
              B == Last(wc.commits)
              d == CHOOSE x \in diff_index(A, B) : TRUE
          IN /\ diff_repos(A, B) = <<Delta("D", "a", d.a_path, A[d.a_path]),
                                      Delta("A", "b", d.b_path, B[d.b_path])>>
             /\ \E n \in Nids \cup NewNids :
                   /\ n \notin DOMAIN col
                   /\ col' = (n :> [front |-> B[d.b_path].front,
                                    back |-> B[d.b_path].back])
                             @@ remove_notes(col, A[d.a_path].nid)]_vars

\* C18 (as claimed): for every entry of the diff between the baseline and
\* HEAD that is Added, Modified or TypeChanged, or Renamed with the same nid
\* on both sides, the deltas hold exactly one delta of that kind for the
\* B-side path.
C18_OneDeltaPerEntry ==
    Diffed
    => \A d \in diff_index(run.wc0.mirror.tree, Last(run.wc0.commits)) :
          (\/ d.change_type \in {"A", "M", "T"}
           \/ /\ d.change_type = "R"
              /\ run.wc0.mirror.tree[d.a_path].nid
                   = Last(run.wc0.commits)[d.b_path].nid)
          => Cardinality({i \in 1..Len(run.deltas) :
                             /\ run.deltas[i].status = d.change_type
                             /\ run.deltas[i].relpath = d.b_path}) = 1

\* C19 (as claimed): after the push of a commit that adds a note file whose
\* nid the collection does not have, and whose first field no note of the
\* collection has, the collection has one more note, under a new nid, with
\* the fields of the file; the working tree has exactly one file with that
\* nid, at the path of the slug of its sort field; the file that was
\* committed is gone; and the main repository has one more commit, of that
\* tree.
C19_PushAddsNewNote ==
    (/\ run.edit = "add"
     /\ run.pc = "done"
     /\ Diffed
     /\ log = <<>>
     /\ \A m \in DOMAIN run.col0 : run.col0[m].front # "R")
    => \E n \in DOMAIN col \ DOMAIN run.col0 :
          /\ DOMAIN col = DOMAIN run.col0 \cup {n}
          /\ col[n] = [front |-> "R", back |-> "s"]
          /\ <<"new", 0>> \notin DOMAIN wc.tree
          /\ Cardinality({p \in DOMAIN wc.tree : wc.tree[p].nid = n}) = 1
          /\ \A p \in DOMAIN wc.tree :
                wc.tree[p].nid = n => (p[1] = slugify("R") /\ wc.tree[p].front = "R")
          /\ Len(wc.commits) = Len(run.wc0.commits) + 1
          /\ Last(wc.commits) = wc.tree

\* C20 (as claimed): the push of a commit that deletes a note file removes
\* from the collection the note of the nid the file carried, and no other
\* note.
C20_PushRemovesDeletedNote ==
    [][PushesEdit("delete")
       => col' = remove_notes(col, Last(log).nid)]_vars

\* The deepest of a non-empty set of directories.
Deepest(S) == CHOOSE d \in S : \A e \in S : e <= d

\* The walk of M_kirepo has ended.
Walked == fn.f = "M_kirepo" /\ fn.pc = "done"

C22_LastPushNamesCommit ==
    (Ran("clone") \/ Ran("push"))
    => (/\ wc.last_push \in 1..Len(wc.commits)
        /\ wc.mirror.repo
        /\ \E i \in 1..Len(wc.mirror.refs) : wc.mirror.refs[i] = wc.last_push)

\* C23 (as claimed): after a clone or a push that was not turned away, the
\* mirror is a repository whose tree is the tree of the main repository at
\* the commit that last_push holds.
C23_MirrorIsTreeAtLastPush ==
    (Ran("clone") \/ Ran("push"))
    => (/\ wc.last_push \in 1..Len(wc.commits)
        /\ wc.mirror.repo
        /\ wc.mirror.tree = wc.commits[wc.last_push])

\* C24 (as claimed): a push that gets past the test of the hashes log, and
\* a pull that reports "up to date", started with the digest of the
\* collection in the digest field of the last line of the hashes log,
\* whatever the file name in that line.
C24_GateComparesDigestField ==
    [][/\ (/\ IsOp("push")
           /\ ~Last(log').refused
           /\ Last(log').err # "IndexError")
          => (wc.hashes # <<>> /\ Last(wc.hashes).md5 = md5(col))
       /\ (IsOp("pull") /\ Last(log').echo = "ki pull: up to date.")
          => (wc.hashes # <<>> /\ Last(wc.hashes).md5 = md5(col))]_vars

\* The first line of the field "a" of the text holds a control character.
BodyControl == Find(fn.body, 1, {"NUL", "BEL", "BS", "VT", "FF"})

\* C25: a text with NUL, BEL, BS, VT or FF in a field body is rejected by
\* the parser, and when the text before that character is well formed the
\* error is at the line and the column of the character and names it.
C25_ControlInFieldBodyRejected ==
    (fn.f = "parse" /\ fn.pc = "done" /\ BodyControl # 0)
    => (/\ fn.res.k = "Err"
        /\ (fn.th = 2 /\ fn.fh = 3)
           => (/\ fn.res.line = fn.lead + 9
               /\ fn.res.column = BodyControl
               /\ fn.res.token = <<fn.body[BodyControl]>>))

\* A text of the tests with BEL after a letter in the field body was
\* rejected at line 10, column 2.
C25_Witness ==
    /\ fn.f = "parse"
    /\ fn.pc = "done"
    /\ fn.lead = 1 /\ fn.th = 2 /\ fn.fh = 3
    /\ fn.body = <<"a", "BEL">>
    /\ fn.res.k = "Err"
    /\ fn.res.line = 10
    /\ fn.res.column = 2

\* C26: a text whose title line does not start with exactly two "#" is
\* rejected with the error on the title line (line 2 after one blank line);
\* a text whose first field header line does not start with exactly three
\* "#" is rejected with the error on that line, the expected terminal being
\* the field sentinel (fewer than three) or the field name (more).
C26_WrongHashCountRejected ==
    (fn.f = "parse" /\ fn.pc = "done")
    => (/\ fn.th # 2 => (fn.res.k = "Err" /\ fn.res.line = fn.lead + 1)
        /\ (fn.th = 2 /\ fn.fh # 3)
           => (/\ fn.res.k = "Err"
               /\ fn.res.line = fn.lead + 8
               /\ fn.res.expected = IF fn.fh < 3 THEN "FIELDSENTINEL"
                                    ELSE "ANKINAME"))

\* A title with three "#" after one blank line was rejected at line 2, and
\* so was, in another text, a field header with four "#" at line 9.
C26_Witness ==
    /\ fn.f = "parse"
    /\ fn.pc = "done"
    /\ fn.lead = 1
    /\ fn.res.k = "Err"
    /\ \/ fn.th = 3 /\ fn.res.line = 2
       \/ fn.th = 2 /\ fn.fh = 4 /\ fn.res.line = 9 /\ fn.res.column = 4

\* C27 (as claimed): a note file whose field names are not the field names
\* of the notetype in the same order ends update_kinote and
\* add_note_from_flatnote with an error, the note in the collection that
\* Anki has open is as before and no note is added.
C27_WrongFieldNamesRejected ==
    (/\ fn.f \in {"update_kinote", "add_note_from_flatnote"}
     /\ fn.pc = "done"
     /\ keys(fn.fields) # <<"Front", "Back">>)
    => (/\ fn.res.k # "Ok"
        /\ fn.n = [Front |-> "r", Back |-> "s"]
        /\ fn.added = <<>>)

\* The push taken step by step has made its commit "Generated new nid(s).".
CommittedNids == log = <<>> /\ Len(wc.commits) > Len(run.wc0.commits)

\* C28: the deltas are applied one at a time in the order in which
\* diff_repos has put them, a Deleted delta at its place among the others;
\* diff_repos has put the deltas of Deleted entries before those of Renamed
\* entries; and when the commit of the new nids is made every delta has been
\* applied.
C28_DeltasAppliedInOrder ==
    /\ Diffed =>
         /\ Len(run.applied) <= Len(run.deltas)
         /\ run.applied = SubSeq(run.deltas, 1, Len(run.applied))
    /\ (Diffed /\ run.edit = "rename_both") =>
         /\ Len(run.deltas) = 4
         /\ [i \in 1..4 |-> run.deltas[i].status] = <<"D", "A", "D", "A">>
         /\ run.deltas[1].note.front = run.deltas[2].note.front
         /\ run.deltas[3].note.front = run.deltas[4].note.front
    /\ (Diffed /\ run.edit = "delete_rename") =>
         /\ Len(run.deltas) = 3
         /\ [i \in 1..3 |-> run.deltas[i].status] = <<"D", "D", "A">>
         /\ run.deltas[1].note.front # run.deltas[3].note.front
         /\ run.deltas[2].note.front = run.deltas[3].note.front
    /\ CommittedNids => run.applied = run.deltas

\* Two files were renamed and given no nid: the four deltas have been
\* applied and the new nids committed.
C28_Witness ==
    /\ run.edit = "rename_both"
    /\ Len(run.applied) = 4
    /\ run.num_new_nids = 2
    /\ CommittedNids

\* The relative path is the sidecar, the repository metadata directory,
\* .gitignore, .gitmodules or a notetypes manifest, or lies under the
\* sidecar or the repository metadata directory.
Excluded(path) ==
    \/ path[1] \in {".ki", ".git"}
    \/ path[Len(path)] \in {".ki", ".git", ".gitignore", ".gitmodules", "models.json"}

\* C29 (as claimed): diff_repos appends no delta for an entry with an
\* excluded path, nor for an entry with an existing file that is no note
\* file; every other entry passes the ignore predicate.
C29_IgnoredEntriesGiveNoDelta ==
    (fn.f = "diff_repos" /\ fn.pc = "done")
    => LET d == fn.diff
           excluded == Excluded(d.a_path) \/ Excluded(d.b_path)
           no_note == d.a_file \in {"text", "other"} \/ d.b_file \in {"text", "other"}
       IN /\ excluded => fn.deltas = <<>>
          /\ no_note => fn.deltas = <<>>
          /\ (~excluded /\ ~no_note) => fn.passed

\* The name, without .md, of the file with the index i for a sort field of
\* the inputs.
NameOf(text, i) ==
    LET parts == CASE text = "R" -> <<"r">>
                   [] text = "r_1" -> <<"r", 1>>
                   [] OTHER -> <<text>>
    IN IF i = 0 THEN parts ELSE parts \o <<i>>

\* C30: a note is never written into a file that was there; the file of
\* the k-th note is <slug>.md when that was free and else <slug>_i.md for
\* the least i >= 1 that was free; the search has tested at most as many
\* names as the directory has files; and the files of the notes written are
\* pairwise distinct.
C30_NotePathIsFresh ==
    fn.f = "write_deck"
    => (/\ ~fn.overwrote
        /\ fn.i <= Cardinality(fn.files)
        /\ \A k \in 1..Len(fn.written) :
             LET before == fn.files0 \cup {fn.written[j] : j \in 1..(k - 1)}
             IN /\ fn.written[k] = NameOf(fn.notes[k], fn.index[k])
                /\ fn.written[k] \notin before
                /\ \A j \in 0..(fn.index[k] - 1) : NameOf(fn.notes[k], j) \in before
        /\ \A j, k \in 1..Len(fn.written) :
             j # k => fn.written[j] # fn.written[k])

\* A note with the slug r_1 and a note with the slug r were written into a
\* directory that held r.md: the second went past r_1.md to r_2.md.
C30_Witness ==
    /\ fn.f = "write_deck"
    /\ fn.todo = <<>>
    /\ fn.notes = <<"r_1", "R">>
    /\ <<"r">> \in fn.files0
    /\ <<"r", 1>> \notin fn.files0
    /\ fn.index = <<0, 2>>

\* C31: the directory created for a deck has one path component per
\* component of the deck name, and none of its components begins with a
\* period, whatever the deck name.
C31_DeckDirMirrorsDeckName ==
    (fn.f = "create_deck_dir" /\ fn.pc = "done") =>
        /\ Len(fn.deck_path) = Len(fn.components)
        /\ \A i \in DOMAIN fn.deck_path : fn.deck_path[i][1] # "."

\* C32: after the write-out the manifest in the directory of each deck holds
\* exactly the notetypes of the notes of that deck, and the manifest of the
\* root holds every notetype of a written note.
C32_ManifestsHoldDeckNotetypes ==
    (fn.f = "write_notes" /\ fn.pc = "done") =>
        /\ \A deck_name \in DOMAIN fn.decks :
            fn.manifest[deck_dir(deck_name)] = fn.decks[deck_name]
        /\ \A deck_name \in DOMAIN fn.decks :
            fn.decks[deck_name] \subseteq fn.manifest[<<>>]

\* C33: no value tagged EmptyDir names a directory into which a path
\* operation has created an entry.
C33_EmptyDirTagsAreCurrent ==
    fn.f = "paths" =>
        \A v \in DOMAIN fn.vals :
            fn.vals[v].tag = "EmptyDir" =>
                \A p \in DOMAIN fn.fs :
                    ~(Len(p) = Len(fn.vals[v].path) + 1
                      /\ SubSeq(p, 1, Len(p) - 1) = fn.vals[v].path)

\* C34 (as claimed): when a note was added to or deleted from the collection
\* since the last push and the working copy has no commit after the one in
\* last_push, after a pull that was not turned away a note added in the
\* collection has a note file and a note deleted in the collection has
\* none.  Stated for a collection file with an ordinary name.
C34_PullMergesDbAddAndDelete ==
    (/\ Len(log) >= 2
     /\ Ran("pull")
     /\ ~colName.embeds
     /\ Prev.op = "dbedit"
     /\ Prev.kind \in {"add", "delete"}
     /\ wc.last_push = Len(wc.commits))
    => /\ Prev.kind = "add" =>
            \E p \in DOMAIN wc.tree : wc.tree[p].nid = Prev.nid
       /\ Prev.kind = "delete" =>
            \A p \in DOMAIN wc.tree : wc.tree[p].nid # Prev.nid

\* C35 (as claimed): when a push ends that has returned Ok or has gone
\* through to the statements after the overwrite of the collection, the
\* untracked files that were in the working copy when it started are in the
\* working tree.
C35_LocalFilesKeptByPush ==
    (run.pc = "done" /\ (run.res.k = "Ok" \/ run.over))
    => run.wc0.entries \cap {USER_FILE} \subseteq wc.entries

\* C36: the file of a note that push has added under a new nid is removed
\* only if the regenerated file is written, so that the note has a file in
\* the working tree afterwards, also when its notetype or its sort field is
\* not found.
C36_AddedNoteKeepsAFile ==
    (fn.f = "regenerate" /\ fn.pc = "done") =>
        /\ fn.unlinked => fn.num_new_nids = 1
        /\ \E p \in DOMAIN fn.tree : fn.tree[p].nid = fn.kinote.nid

\* C37: pull appends the digest of the collection to the hashes log only if
\* the git pull into the main repository has merged, so that no later pull
\* reports 'up to date' while the note files lack the edits of the
\* collection.
C37_HashAppendedOnlyAfterMerge ==
    fn.f = "pull_changes" =>
        /\ Len(fn.w.hashes) > 1 => fn.merged
        /\ (fn.pc = "again" /\ fn.echo = "ki pull: up to date.")
               => fn.w.tree = write_notes(fn.db)

\* C38 (as claimed): no push and no pull fails on the lock it holds itself:
\* none ends with the error of an open of the collection on which its own
\* exclusive transaction is open.
C38_NoOpenOfOwnLockedCollection ==
    (log # <<>> /\ Last(log).op \in {"push", "pull"} /\ con = "locked")
    => Last(log).err # "DBError"

\* The commit a push was started for, and the nids of its note files that
\* the collection had when the push started.
Pushed == Last(run.wc0.commits)

\* C39 (as claimed): when a push that has overwritten the collection ends,
\* and no two note files of the pushed commit carry one nid, the collection
\* has every note it had before whose nid a note file of the pushed commit
\* carries: no Deleted delta has removed such a note.
C39_PushedNidsStayInDb ==
    (/\ run.pc = "done"
     /\ run.over
     /\ \A p, q \in DOMAIN Pushed : Pushed[p].nid = Pushed[q].nid => p = q)
    => \A p \in DOMAIN Pushed :
          Pushed[p].nid \in DOMAIN run.col0 => Pushed[p].nid \in DOMAIN col

\* C40: the digest _clone has for the hashes log is the digest of the
\* content of the collection from which it has written the note files,
\* whenever another process writes the collection file meanwhile; and the
\* line it appends to the log carries that digest.
C40_HashIsOfRenderedCollection ==
    (fn.f = "_clone" /\ fn.pc \in {"wrote", "done"}) =>
        /\ fn.md5sum = md5(fn.rendered)
        /\ (fn.pc = "done" /\ fn.w.hashes # <<>>)
               => Last(fn.w.hashes).md5 = md5(fn.rendered)

====
